---- MODULE Spec2Model ----
(***************************************************************************)
(* Model of the BeautyDrop deals scraper: the price/currency helpers, the  *)
(* three extractors (LD+JSON, OG meta, DOM fallback), dedupe and the       *)
(* scrapeDetail / scrapeUrl orchestration, in the two variants the         *)
(* repository holds (src/bot.mjs, second program of the file, and          *)
(* src/unnamed/part_000).                                                  *)
(*                                                                         *)
(* Conventions.                                                            *)
(*  - A JavaScript value is a record [t, n, d, s]: t is its type tag        *)
(*    ("null" for null and undefined, "num" for a finite number n/d with   *)
(*    d a power of ten and n/d in lowest decimal form, "inf"/"ninf" for     *)
(*    +-Infinity, "nan", "str" for a string s).  One record shape for all   *)
(*    values keeps every comparison well typed.                             *)
(*  - A string is a sequence of one-character strings.                      *)
(*  - Arithmetic is exact decimal arithmetic; IEEE-754 representation       *)
(*    error of the double type is not modelled.                             *)
(***************************************************************************)
EXTENDS Integers, Sequences, FiniteSets, TLC

VARIABLES
    input,      \* pure-function harness: the arguments of the call under test
    output,     \* pure-function harness: the value returned
    phase,      \* pure-function harness: "idle" | "ready" | "returned" | "again"
    variant,    \* "bot" (src/bot.mjs) | "part000" (src/unnamed/part_000)
    web,        \* the site the run is pointed at: "shop" | "catalog" | "outlet" | "none"
    pc,         \* scrapeUrl's position: "idle" | "start" | "details" | "done"
    tries,      \* failed navigation attempts on the listing page so far
    host,       \* host of the listing page's final URL
    country,    \* guessCountryFromHost(host) || 'UNK'
    listing,    \* what was extracted from the listing page
    items,      \* scrapeUrl's local `items`
    detail,     \* detail[i]: the i-th scrapeDetail task, in productLinks order
    work,       \* history: `items` after the detail merge and after the currency fill
    result      \* the value scrapeUrl returns

pureVars == <<input, output, phase>>
envVars == <<variant, web>>
pipeVars == <<pc, tries, host, country, listing, items, detail, work, result>>
vars == <<input, output, phase, variant, web, pc, tries, host, country, listing,
          items, detail, work, result>>

-----------------------------------------------------------------------------
(* JavaScript values *)

Null == [t |-> "null", n |-> 0, d |-> 1, s |-> <<>>]
NaN == [t |-> "nan", n |-> 0, d |-> 1, s |-> <<>>]
PosInf == [t |-> "inf", n |-> 1, d |-> 1, s |-> <<>>]
NegInf == [t |-> "ninf", n |-> -1, d |-> 1, s |-> <<>>]
Str(s) == [t |-> "str", n |-> 0, d |-> 1, s |-> s]

RECURSIVE Num(_, _)
\* the finite number n/d (d a power of ten), in lowest decimal form
Num(n, d) ==
    IF d > 1 /\ n % 10 = 0 THEN Num(n \div 10, d \div 10)
    ELSE [t |-> "num", n |-> n, d |-> d, s |-> <<>>]

Whole(n) == Num(n, 1)
Zero == Whole(0)

isNull(v) == v.t = "null"
isFinite(v) == v.t = "num"
isNumber(v) == v.t \in {"num", "inf", "ninf", "nan"}

\* a < b on numbers (IEEE order; any comparison with NaN is false)
Lt(a, b) ==
    CASE a.t = "nan" \/ b.t = "nan" -> FALSE
      [] a.t = "num" /\ b.t = "num" -> a.n * b.d < b.n * a.d
      [] a.t = "ninf" -> b.t # "ninf"
      [] a.t = "inf" -> FALSE
      [] OTHER -> b.t = "inf"
Gt(a, b) == Lt(b, a)
Le(a, b) == a.t # "nan" /\ b.t # "nan" /\ ~Lt(b, a)
Ge(a, b) == Le(b, a)

\* truthiness of a value (if (x), x || y)
truthy(v) ==
    CASE v.t \in {"null", "nan"} -> FALSE
      [] v.t = "num" -> v.n # 0
      [] v.t = "str" -> v.s # <<>>
      [] OTHER -> TRUE

\* x ?? y
Coalesce(x, y) == IF isNull(x) THEN y ELSE x
\* x || y
OrElse(x, y) == IF truthy(x) THEN x ELSE y

-----------------------------------------------------------------------------
(* computeDiscount *)

\* a / b * 100 cut, not rounded, to one decimal place
RoundPct_trunc(a, b) ==
    LET sa == IF b < 0 THEN -a ELSE a
        sb == IF b < 0 THEN -b ELSE b
    IN  Num((1000 * sa) \div sb, 10)

\* Math.round(((a / b) * 100) * 10) / 10 for the exact rational a/b, b # 0:
\* Math.round(x) is floor(x + 1/2)
RoundPct(a, b) ==
    LET sa == IF b < 0 THEN -a ELSE a
        sb == IF b < 0 THEN -b ELSE b
    IN  Num((2000 * sa + sb) \div (2 * sb), 10)

\* ((priceOld - priceNew) / priceOld) * 100, rounded as the code rounds it,
\* for finite priceNew, priceOld
PctOff(priceNew, priceOld) ==
    LET a == priceOld.n * priceNew.d - priceNew.n * priceOld.d
        b == priceOld.n * priceNew.d
    IN  IF b = 0 THEN (IF a > 0 THEN PosInf ELSE IF a < 0 THEN NegInf ELSE NaN)
        ELSE RoundPct(a, b)

computeDiscount_ge(priceNew, priceOld) ==
    IF isNull(priceNew) \/ isNull(priceOld) THEN Null
    ELSE IF ~isFinite(priceNew) \/ ~isFinite(priceOld) THEN Null
    ELSE IF Le(priceOld, Zero) \/ Gt(priceNew, priceOld) THEN Null
    ELSE PctOff(priceNew, priceOld)

computeDiscount(priceNew, priceOld) ==
    IF isNull(priceNew) \/ isNull(priceOld) THEN Null
    ELSE IF ~isFinite(priceNew) \/ ~isFinite(priceOld) THEN Null
    ELSE IF Le(priceOld, Zero) \/ Ge(priceNew, priceOld) THEN Null
    ELSE PctOff(priceNew, priceOld)

-----------------------------------------------------------------------------
(* characters outside ASCII are written as one-character tokens *)

EuroSign == "{euro}"
PoundSign == "{pound}"
LStrokeUpper == "{L-stroke}"
LStrokeLower == "{l-stroke}"
CCaronUpper == "{C-caron}"
CCaronLower == "{c-caron}"
Ellipsis == "{ellipsis}"
WhiteChars == {" ", "\t", "\n", "{nbsp}"}

-----------------------------------------------------------------------------
(* strings *)

UpperChars == <<"A","B","C","D","E","F","G","H","I","J","K","L","M",
                "N","O","P","Q","R","S","T","U","V","W","X","Y","Z">>
LowerChars == <<"a","b","c","d","e","f","g","h","i","j","k","l","m",
                "n","o","p","q","r","s","t","u","v","w","x","y","z">>
DigitChars == <<"0","1","2","3","4","5","6","7","8","9">>

lowerChar(c) ==
    IF \E i \in 1..26 : UpperChars[i] = c
    THEN LowerChars[CHOOSE i \in 1..26 : UpperChars[i] = c]
    ELSE c
upperChar(c) ==
    IF \E i \in 1..26 : LowerChars[i] = c
    THEN UpperChars[CHOOSE i \in 1..26 : LowerChars[i] = c]
    ELSE c

\* String.prototype.toLowerCase / toUpperCase
toLowerCase(s) == [i \in 1..Len(s) |-> lowerChar(s[i])]

RECURSIVE natToStr(_)
\* decimal digits of a natural number
natToStr(n) ==
    IF n < 10 THEN <<DigitChars[n + 1]>>
    ELSE natToStr(n \div 10) \o <<DigitChars[(n % 10) + 1]>>

RECURSIVE fracToStr(_, _)
\* the digits of r/d after the decimal point, 0 <= r < d, d a power of ten
fracToStr(r, d) ==
    IF d = 1 THEN <<>>
    ELSE <<DigitChars[(r \div (d \div 10)) + 1]>> \o fracToStr(r % (d \div 10), d \div 10)

\* String(v) as a template literal renders v (numbers in plain decimal
\* notation: the magnitudes that switch to exponent notation are out of range)
toStr(v) ==
    CASE v.t = "str" -> v.s
      [] v.t = "null" -> <<"n","u","l","l">>
      [] v.t = "nan" -> <<"N","a","N">>
      [] v.t = "inf" -> <<"I","n","f","i","n","i","t","y">>
      [] v.t = "ninf" -> <<"-","I","n","f","i","n","i","t","y">>
      [] OTHER ->
            LET a == IF v.n < 0 THEN -v.n ELSE v.n
                sign == IF v.n < 0 THEN <<"-">> ELSE <<>>
                whole == natToStr(a \div v.d)
            IN  IF v.d = 1 THEN sign \o whole
                ELSE sign \o whole \o <<".">> \o fracToStr(a % v.d, v.d)

NameMax == 180
BrandMax == 80

\* trim(s, n): '' for a falsy s, s cut to n characters plus an ellipsis
trim(s, n) ==
    IF ~truthy(s) THEN Str(<<>>)
    ELSE IF Len(s.s) > n THEN Str(SubSeq(s.s, 1, n) \o <<Ellipsis>>)
    ELSE s

-----------------------------------------------------------------------------
(* dedupe *)

\* sha1 is taken to be collision free: the digest is identified with the
\* string it digests
sha1(x) == x

dedupeKey_nolower(it) ==
    sha1(OrElse(it.name, Str(<<>>)).s \o <<"|">> \o toStr(it.url)
         \o <<"|">> \o toStr(Coalesce(it.price_new, Str(<<>>)))
         \o <<"|">> \o toStr(Coalesce(it.currency, Str(<<>>))))

\* the key of one record, as dedupe builds it
dedupeKey(it) ==
    sha1(toLowerCase(OrElse(it.name, Str(<<>>)).s) \o <<"|">> \o toStr(it.url)
         \o <<"|">> \o toStr(Coalesce(it.price_new, Str(<<>>)))
         \o <<"|">> \o toStr(Coalesce(it.currency, Str(<<>>))))

dedupePush_unshift(key, it, acc) ==
    [seen |-> acc.seen \cup {key}, out |-> <<it>> \o acc.out]

dedupePush_noadd(key, it, acc) ==
    [seen |-> acc.seen, out |-> Append(acc.out, it)]

\* seen.add(key); out.push(it)
dedupePush(key, it, acc) ==
    [seen |-> acc.seen \cup {key}, out |-> Append(acc.out, it)]

RECURSIVE dedupeLoop(_, _, _, _)
\* the for loop of dedupe over its[i..n], entered with `seen` and `out` in acc
dedupeLoop(its, i, n, acc) ==
    IF i > n THEN acc
    ELSE IF dedupeKey(its[i]) \in acc.seen THEN dedupeLoop(its, i + 1, n, acc)
    ELSE dedupeLoop(its, i + 1, n, dedupePush(dedupeKey(its[i]), its[i], acc))

RECURSIVE dedupeFrom(_, _, _)
\* the for loop from its[i] on, run in stretches of eight items
dedupeFrom(its, i, acc) ==
    IF i > Len(its) THEN acc
    ELSE dedupeFrom(its, i + 8,
                    dedupeLoop(its, i, IF i + 7 < Len(its) THEN i + 7 ELSE Len(its), acc))

dedupe(its) == dedupeFrom(its, 1, [seen |-> {}, out |-> <<>>]).out

-----------------------------------------------------------------------------
(* generic string helpers *)

RECURSIVE filterChars(_, _)
\* s.replace(/[^...]/g, '') keeping the characters of `keep`
filterChars(s, keep) ==
    IF s = <<>> THEN <<>>
    ELSE (IF Head(s) \in keep THEN <<Head(s)>> ELSE <<>>) \o filterChars(Tail(s), keep)

RECURSIVE dropChars(_, _)
\* s.replace(/[...]/g, '') removing the characters of `drop`
dropChars(s, drop) ==
    IF s = <<>> THEN <<>>
    ELSE (IF Head(s) \in drop THEN <<>> ELSE <<Head(s)>>) \o dropChars(Tail(s), drop)

startsWith(s, pat) == Len(pat) <= Len(s) /\ SubSeq(s, 1, Len(pat)) = pat
endsWith(s, pat) ==
    Len(pat) <= Len(s) /\ SubSeq(s, Len(s) - Len(pat) + 1, Len(s)) = pat
\* RegExp test of a literal pattern: pat occurs in s
contains(s, pat) ==
    \E i \in 1..(Len(s) - Len(pat) + 1) : SubSeq(s, i, i + Len(pat) - 1) = pat
includes(s, c) == \E i \in 1..Len(s) : s[i] = c
\* lastIndexOf as a 1-based index, 0 when absent
lastIndexOf(s, c) ==
    IF includes(s, c) THEN CHOOSE i \in 1..Len(s) : s[i] = c /\ \A j \in (i+1)..Len(s) : s[j] # c
    ELSE 0
\* s.replace(c, r): the first occurrence only
replaceFirst(s, c, r) ==
    IF includes(s, c)
    THEN LET i == CHOOSE k \in 1..Len(s) : s[k] = c /\ \A j \in 1..(k-1) : s[j] # c
         IN  SubSeq(s, 1, i - 1) \o <<r>> \o SubSeq(s, i + 1, Len(s))
    ELSE s

RECURSIVE replaceNbsp(_)
\* s.replace(/&nbsp;/g, ' ')
replaceNbsp(s) ==
    IF s = <<>> THEN <<>>
    ELSE IF startsWith(s, <<"&","n","b","s","p",";">>)
         THEN <<" ">> \o replaceNbsp(SubSeq(s, 7, Len(s)))
         ELSE <<Head(s)>> \o replaceNbsp(Tail(s))

RECURSIVE collapseSpaces(_)
\* s.replace(/\s+/g, ' ')
collapseSpaces(s) ==
    IF s = <<>> THEN <<>>
    ELSE IF Head(s) \in WhiteChars
         THEN IF Len(s) > 1 /\ s[2] \in WhiteChars THEN collapseSpaces(Tail(s))
              ELSE <<" ">> \o collapseSpaces(Tail(s))
         ELSE <<Head(s)>> \o collapseSpaces(Tail(s))

RECURSIVE trimLeft(_)
trimLeft(s) == IF s # <<>> /\ Head(s) \in WhiteChars THEN trimLeft(Tail(s)) ELSE s
RECURSIVE trimRight(_)
trimRight(s) ==
    IF s # <<>> /\ s[Len(s)] \in WhiteChars THEN trimRight(SubSeq(s, 1, Len(s) - 1)) ELSE s
\* String.prototype.trim
strTrim(s) == trimRight(trimLeft(s))

-----------------------------------------------------------------------------
(* Number(s) and the localized number parsers *)

DigitSet == {DigitChars[i] : i \in 1..10}
digitVal(c) == (CHOOSE i \in 1..10 : DigitChars[i] = c) - 1

RECURSIVE digitsToNat(_)
digitsToNat(s) ==
    IF s = <<>> THEN 0
    ELSE digitsToNat(SubSeq(s, 1, Len(s) - 1)) * 10 + digitVal(s[Len(s)])

RECURSIVE pow10(_)
pow10(k) == IF k = 0 THEN 1 ELSE 10 * pow10(k - 1)

\* Number(s) for a string of digits, ',', '.' and '-': '' is 0; an optional
\* leading '-', then digits with at most one '.', at least one digit;
\* anything else is NaN
toNumber(s) ==
    IF s = <<>> THEN Zero
    ELSE LET neg == Head(s) = "-"
             body == IF neg THEN Tail(s) ELSE s
             dot == lastIndexOf(body, ".")
             ip == IF dot = 0 THEN body ELSE SubSeq(body, 1, dot - 1)
             fp == IF dot = 0 THEN <<>> ELSE SubSeq(body, dot + 1, Len(body))
             wellFormed == /\ \A i \in 1..Len(ip) : ip[i] \in DigitSet
                           /\ \A i \in 1..Len(fp) : fp[i] \in DigitSet
                           /\ Len(ip) + Len(fp) > 0
             mag == digitsToNat(ip \o fp)
         IN  IF ~wellFormed THEN NaN
             ELSE Num(IF neg THEN -mag ELSE mag, pow10(Len(fp)))

NumChars == DigitSet \cup {",", ".", "-"}

\* the separator rule shared by the number parsers, on the cleaned string
decimalRule(s) ==
    IF includes(s, ",") /\ includes(s, ".")
    THEN IF lastIndexOf(s, ",") > lastIndexOf(s, ".")
         THEN replaceFirst(dropChars(s, {"."}), ",", ".")
         ELSE dropChars(s, {","})
    ELSE IF includes(s, ",") THEN replaceFirst(s, ",", ".")
    ELSE s

finiteOrNull(val) == IF isFinite(val) THEN val ELSE Null

\* parseNumberLocalized of src/bot.mjs
parseNumberLocalized(in) ==
    IF isNull(in) THEN Null
    ELSE LET s0 == strTrim(collapseSpaces(replaceNbsp(toStr(in))))
             s1 == filterChars(s0, NumChars)
         IN  finiteOrNull(toNumber(decimalRule(s1)))

\* parseNumberLocalized of src/unnamed/part_000
parseNumberLocalized0(in) ==
    IF isNull(in) THEN Null
    ELSE LET s1 == filterChars(dropChars(toStr(in), WhiteChars), NumChars)
         IN  finiteOrNull(toNumber(decimalRule(s1)))

-----------------------------------------------------------------------------
(* currency detection *)

EUR == <<"E","U","R">>
GBP == <<"G","B","P">>
USD == <<"U","S","D">>
UNK == <<"U","N","K">>

\* 'l-stroke' and 'c-caron' upper-case to their capitals
upperCharX(c) ==
    IF c = LStrokeLower THEN LStrokeUpper
    ELSE IF c = CCaronLower THEN CCaronUpper
    ELSE upperChar(c)
toUpperCaseX(s) == [i \in 1..Len(s) |-> upperCharX(s[i])]

\* the tests that follow the symbol tests, in order: <<code, patterns>>, each
\* tried against the upper-cased text
CodeTable ==
    <<<<<<"P","L","N">>, {<<"P","L","N">>, <<"Z", LStrokeUpper>>}>>,
      <<<<"C","H","F">>, {<<"C","H","F">>}>>,
      <<<<"C","Z","K">>, {<<"C","Z","K">>, <<"K", CCaronUpper>>}>>,
      <<<<"H","U","F">>, {<<"H","U","F">>, <<"F","T">>}>>,
      <<<<"R","O","N">>, {<<"R","O","N">>, <<"L","E","I">>}>>,
      <<<<"B","G","N">>, {<<"B","G","N">>}>>,
      <<<<"D","K","K">>, {<<"D","K","K">>}>>,
      <<<<"S","E","K">>, {<<"S","E","K">>}>>,
      <<<<"N","O","K">>, {<<"N","O","K">>}>>,
      <<<<"T","R","Y">>, {<<"T","R","Y">>, <<"T","L">>}>>>>

RECURSIVE firstCode(_, _, _)
\* the code of the first row of `table` from row i on with a pattern in u
firstCode(table, i, u) ==
    IF i > Len(table) THEN Null
    ELSE IF \E pat \in table[i][2] : contains(u, pat) THEN Str(table[i][1])
    ELSE firstCode(table, i + 1, u)

\* detectCurrencyFromText without the upper-casing of the text
detectCurrencyFromText_cased(txt) ==
    IF ~truthy(txt) THEN Null
    ELSE IF includes(txt.s, EuroSign) \/ contains(txt.s, EUR) THEN Str(EUR)
    ELSE IF includes(txt.s, PoundSign) \/ contains(txt.s, GBP) THEN Str(GBP)
    ELSE firstCode(CodeTable, 1, txt.s)

\* detectCurrencyFromText of src/bot.mjs (currencyFrom of extractFromDom is
\* the same function under another name)
detectCurrencyFromText(txt) ==
    IF ~truthy(txt) THEN Null
    ELSE LET s == toUpperCaseX(txt.s)
         IN  IF includes(txt.s, EuroSign) \/ contains(s, EUR) THEN Str(EUR)
             ELSE IF includes(txt.s, PoundSign) \/ contains(s, GBP) THEN Str(GBP)
             ELSE firstCode(CodeTable, 1, s)

currencyFrom(s) == detectCurrencyFromText(s)

\* detectCurrencyFromText of src/unnamed/part_000
detectCurrencyFromText0(txt) ==
    IF ~truthy(txt) THEN Null
    ELSE LET s == toUpperCaseX(txt.s)
             c == firstCode(CodeTable, 1, s)
         IN  IF includes(txt.s, EuroSign) THEN Str(EUR)
             ELSE IF includes(txt.s, PoundSign) THEN Str(GBP)
             ELSE IF includes(txt.s, "$") THEN Str(USD)
             ELSE IF ~isNull(c) THEN c
             ELSE IF contains(s, GBP) THEN Str(GBP)
             ELSE IF contains(s, EUR) THEN Str(EUR)
             ELSE Null

-----------------------------------------------------------------------------
(* country and default currency *)

\* the endsWith tests of guessCountryFromHost, in order: <<suffix, country>>
TldTable ==
    <<<<<<".","t","r">>, <<"T","R">>>>,
      <<<<".","d","e">>, <<"D","E">>>>,
      <<<<".","f","r">>, <<"F","R">>>>,
      <<<<".","i","t">>, <<"I","T">>>>,
      <<<<".","e","s">>, <<"E","S">>>>,
      <<<<".","n","l">>, <<"N","L">>>>,
      <<<<".","b","e">>, <<"B","E">>>>,
      <<<<".","a","t">>, <<"A","T">>>>,
      <<<<".","c","h">>, <<"C","H">>>>,
      <<<<".","p","l">>, <<"P","L">>>>,
      <<<<".","c","z">>, <<"C","Z">>>>,
      <<<<".","s","k">>, <<"S","K">>>>,
      <<<<".","h","u">>, <<"H","U">>>>,
      <<<<".","r","o">>, <<"R","O">>>>,
      <<<<".","b","g">>, <<"B","G">>>>,
      <<<<".","g","r">>, <<"G","R">>>>,
      <<<<".","p","t">>, <<"P","T">>>>,
      <<<<".","d","k">>, <<"D","K">>>>,
      <<<<".","s","e">>, <<"S","E">>>>,
      <<<<".","n","o">>, <<"N","O">>>>,
      <<<<".","f","i">>, <<"F","I">>>>,
      <<<<".","i","e">>, <<"I","E">>>>,
      <<<<".","c","o",".","u","k">>, <<"U","K">>>>,
      <<<<".","u","k">>, <<"U","K">>>>>>

RECURSIVE firstSuffix(_, _)
firstSuffix(h, i) ==
    IF i > Len(TldTable) THEN Null
    ELSE IF endsWith(h, TldTable[i][1]) THEN Str(TldTable[i][2])
    ELSE firstSuffix(h, i + 1)

guessCountryFromHost(h0) == firstSuffix(toLowerCase(h0), 1)

\* the map literal of defaultCurrencyForCountry: <<country, currency>>
CurrencyMap ==
    <<<<<<"T","R">>, <<"T","R","Y">>>>,
      <<<<"D","E">>, <<"E","U","R">>>>,
      <<<<"F","R">>, <<"E","U","R">>>>,
      <<<<"I","T">>, <<"E","U","R">>>>,
      <<<<"E","S">>, <<"E","U","R">>>>,
      <<<<"N","L">>, <<"E","U","R">>>>,
      <<<<"B","E">>, <<"E","U","R">>>>,
      <<<<"A","T">>, <<"E","U","R">>>>,
      <<<<"C","H">>, <<"C","H","F">>>>,
      <<<<"P","L">>, <<"P","L","N">>>>,
      <<<<"C","Z">>, <<"C","Z","K">>>>,
      <<<<"S","K">>, <<"E","U","R">>>>,
      <<<<"H","U">>, <<"H","U","F">>>>,
      <<<<"R","O">>, <<"R","O","N">>>>,
      <<<<"B","G">>, <<"B","G","N">>>>,
      <<<<"G","R">>, <<"E","U","R">>>>,
      <<<<"P","T">>, <<"E","U","R">>>>,
      <<<<"D","K">>, <<"D","K","K">>>>,
      <<<<"S","E">>, <<"S","E","K">>>>,
      <<<<"N","O">>, <<"N","O","K">>>>,
      <<<<"F","I">>, <<"E","U","R">>>>,
      <<<<"I","E">>, <<"E","U","R">>>>,
      <<<<"U","K">>, <<"G","B","P">>>>>>

defaultCurrencyForCountry(c) ==
    IF \E i \in 1..Len(CurrencyMap) : CurrencyMap[i][1] = c.s
    THEN Str(CurrencyMap[CHOOSE i \in 1..Len(CurrencyMap) : CurrencyMap[i][1] = c.s][2])
    ELSE Null

-----------------------------------------------------------------------------
(* records *)

Empty == Str(<<>>)

Item(source, name, brand, price_new, price_old, discount_pct, currency, availability, url, image, store, ctry) ==
    [source |-> source, name |-> name, brand |-> brand,
     price_new |-> price_new, price_old |-> price_old,
     discount_pct |-> discount_pct, currency |-> currency,
     availability |-> availability, url |-> url, image |-> image,
     store |-> store, country |-> ctry]

\* the result of a function that may throw
Returned(its) == [threw |-> FALSE, items |-> its]
Thrown == [threw |-> TRUE, items |-> <<>>]

-----------------------------------------------------------------------------
(* extractFromLdJson *)
(* An LD+JSON block is [parsed, nodes]: parsed is FALSE when safeJsonParse    *)
(* gives null or the value is falsy; nodes are the elements of the parsed     *)
(* array, or the parsed value alone.  A node is [isNull, hasGraph, graph, g]: *)
(* graph is its '@graph' array, g the node read as a product candidate.  A    *)
(* candidate g is [isNull, types, name, brand, image, url, offers].           *)

Product == <<"p","r","o","d","u","c","t">>

pNewBot(ofr) ==
    IF isNumber(ofr.price) THEN ofr.price
    ELSE parseNumberLocalized(
            Coalesce(ofr.price, Coalesce(ofr.lowPrice, Coalesce(ofr.highPrice, Null))))

pOldBot(ofr) ==
    LET pOldCand == Coalesce(ofr.listPrice, Coalesce(ofr.highPrice,
                        Coalesce(IF ofr.hasSpec THEN ofr.specPrice ELSE Null, Null)))
    IN  IF isNumber(pOldCand) THEN pOldCand ELSE parseNumberLocalized(pOldCand)

pNewPart0(ofr) ==
    LET pNewStr == Coalesce(ofr.price, Coalesce(ofr.lowPrice, Coalesce(ofr.highPrice, Null)))
    IN  IF isNumber(pNewStr) THEN pNewStr ELSE parseNumberLocalized0(pNewStr)

pOldPart0(ofr) ==
    LET pOldCand == Coalesce(ofr.listPrice,
                        Coalesce(IF isNumber(ofr.highPrice) THEN ofr.highPrice ELSE Null,
                                 IF ofr.hasSpec /\ truthy(ofr.specPrice)
                                 THEN ofr.specPrice ELSE Null))
    IN  IF isNumber(pOldCand) THEN pOldCand ELSE parseNumberLocalized0(pOldCand)

ldPriceOld_ge(pNew, pOld) ==
    IF ~isNull(pNew) /\ ~isNull(pOld) /\ Ge(pOld, pNew) THEN pOld ELSE Null

\* price_old of an offer: kept only when strictly greater than the price
ldPriceOld(pNew, pOld) ==
    IF ~isNull(pNew) /\ ~isNull(pOld) /\ Gt(pOld, pNew) THEN pOld ELSE Null

\* the record pushed for one offer, given its price_new and price_old
offerRecord(pNew, price_old, ofr, name, brand, image, url, h, ctry) ==
    Item("ldjson", trim(name, NameMax), trim(brand, BrandMax),
         Coalesce(pNew, Null), price_old,
         computeDiscount(Coalesce(pNew, Null), price_old),
         OrElse(ofr.priceCurrency, Null), Coalesce(ofr.availability, Null),
         url, image, h, ctry)

\* the record pushed for one offer, given pNew and pOld
offerPriced(pNew, pOld, ofr, name, brand, image, url, h, ctry) ==
    offerRecord(pNew, ldPriceOld(pNew, pOld), ofr, name, brand, image, url, h, ctry)

\* the body of the loop over offers
ldOfferItem(v, ofr, name, brand, image, url, h, ctry) ==
    IF v = "bot"
    THEN offerPriced(pNewBot(ofr), pOldBot(ofr), ofr, name, brand, image, url, h, ctry)
    ELSE offerPriced(pNewPart0(ofr), pOldPart0(ofr), ofr, name, brand, image, url, h, ctry)

isProduct(g) == \E i \in 1..Len(g.types) : toLowerCase(g.types[i]) = Product

offersOf(g) == IF g.offers.kind = "none" THEN <<>> ELSE g.offers.list

RECURSIVE ldOffers(_, _, _, _, _, _, _, _, _)
\* for (const ofr of offers), from offer i on
ldOffers(v, offers, i, name, brand, image, url, h, ctry) ==
    IF i > Len(offers) THEN <<>>
    ELSE <<ldOfferItem(v, offers[i], name, brand, image, url, h, ctry)>>
         \o ldOffers(v, offers, i + 1, name, brand, image, url, h, ctry)

gName(g) == OrElse(g.name, Empty)
gBrand(g) ==
    IF g.brand.isObject THEN OrElse(g.brand.name, Empty) ELSE OrElse(g.brand.v, Empty)
gImage(g) == IF g.image.isArray THEN g.image.first ELSE OrElse(g.image.v, Empty)

\* the body of the loop over graphs for one candidate g
ldGraph(v, g, baseUrl, h, ctry) ==
    IF ~isProduct(g) THEN <<>>
    ELSE IF offersOf(g) = <<>>
         THEN <<Item("ldjson", trim(gName(g), NameMax), trim(gBrand(g), BrandMax),
                     Null, Null, Null, Null, Null, OrElse(g.url, baseUrl),
                     gImage(g), h, ctry)>>
         ELSE ldOffers(v, offersOf(g), 1, gName(g), gBrand(g), gImage(g),
                       OrElse(g.url, baseUrl), h, ctry)

RECURSIVE ldGraphs(_, _, _, _, _, _)
ldGraphs(v, graphs, i, baseUrl, h, ctry) ==
    IF i > Len(graphs) THEN <<>>
    ELSE ldGraph(v, graphs[i], baseUrl, h, ctry)
         \o ldGraphs(v, graphs, i + 1, baseUrl, h, ctry)

graphsOf(node) == IF node.hasGraph THEN node.graph ELSE <<node.g>>

RECURSIVE ldNodes(_, _, _, _, _, _, _)
\* for (const node of arr) over arr[lo..hi]; a range of several nodes is run
\* as its two halves in order
ldNodes(v, nodes, lo, hi, baseUrl, h, ctry) ==
    IF lo > hi THEN <<>>
    ELSE IF lo = hi THEN ldGraphs(v, graphsOf(nodes[lo]), 1, baseUrl, h, ctry)
    ELSE ldNodes(v, nodes, lo, (lo + hi) \div 2, baseUrl, h, ctry)
         \o ldNodes(v, nodes, ((lo + hi) \div 2) + 1, hi, baseUrl, h, ctry)

RECURSIVE ldBlocks(_, _, _, _, _, _)
\* the while loop over the ld+json script blocks, from block i on
ldBlocks(v, blocks, i, baseUrl, h, ctry) ==
    IF i > Len(blocks) THEN <<>>
    ELSE (IF ~blocks[i].parsed THEN <<>>
          ELSE ldNodes(v, blocks[i].nodes, 1, Len(blocks[i].nodes), baseUrl, h, ctry))
         \o ldBlocks(v, blocks, i + 1, baseUrl, h, ctry)

\* a property read on null raises a TypeError: node['@graph'] of a null
\* node, g['@type'] of a null candidate, ofr.price of a null offer
ldThrows(blocks) ==
    \E b \in 1..Len(blocks) :
        /\ blocks[b].parsed
        /\ \E n \in 1..Len(blocks[b].nodes) :
            LET node == blocks[b].nodes[n]
            IN  \/ node.isNull
                \/ /\ ~node.isNull
                   /\ \E k \in 1..Len(graphsOf(node)) :
                        LET g == graphsOf(node)[k]
                        IN  \/ g.isNull
                            \/ /\ ~g.isNull
                               /\ isProduct(g)
                               /\ \E o \in 1..Len(offersOf(g)) : offersOf(g)[o].isNull

\* extractFromLdJson (bot.mjs) / extractProductsFromLdJson (part_000)
extractFromLdJson(v, html, baseUrl, h, ctry) ==
    IF ldThrows(html.ld) THEN Thrown
    ELSE Returned(ldBlocks(v, html.ld, 1, baseUrl, h, ctry))

-----------------------------------------------------------------------------
(* extractFromOg *)
(* html.og is [amt, curr, title, img]: the first capture group of each of    *)
(* the four meta matches, Null when the pattern does not match.              *)

ogCurrency(v, og) ==
    IF truthy(og.curr) THEN og.curr
    ELSE IF v = "bot" THEN detectCurrencyFromText(og.amt)
    ELSE detectCurrencyFromText0(og.amt)

ogPrice(v, og) ==
    IF v = "bot" THEN parseNumberLocalized(og.amt) ELSE parseNumberLocalized0(og.amt)

\* extractFromOg (bot.mjs) / extractProductsFromOg (part_000)
extractFromOg(v, html, baseUrl, h, ctry) ==
    IF isNull(html.og.amt) THEN <<>>
    ELSE <<Item("og", trim(OrElse(html.og.title, Empty), NameMax), Null,
                ogPrice(v, html.og), Null, Null, ogCurrency(v, html.og), Null,
                baseUrl, OrElse(html.og.img, Null), h, ctry)>>

-----------------------------------------------------------------------------
(* extractFromDom *)
(* The rendered document is [title, els]: els are its elements in document    *)
(* order, each [tag, cls, itemprop, prop, mname, content, src, dataPrice,     *)
(* text, priceCap, curCap]: the tag name, the class, itemprop, property and   *)
(* name attributes, the content and src attributes (Null when absent),        *)
(* whether a data-price attribute is present, the text content and, for a     *)
(* script, the capture groups of the "price" and "priceCurrency" patterns     *)
(* (Null when the pattern does not match).                                    *)

txt(el) == strTrim(el.text)

\* getNum of extractFromDom
getNum(s) ==
    IF ~truthy(s) THEN Null
    ELSE LET v0 == strTrim(collapseSpaces(replaceNbsp(s.s)))
             v1 == filterChars(v0, NumChars)
         IN  finiteOrNull(toNumber(decimalRule(v1)))

\* document.querySelector: the first of the matching elements `hits`, which
\* stand in document order
firstEl(hits) ==
    IF hits = <<>> THEN [found |-> FALSE, el |-> <<>>]
    ELSE [found |-> TRUE, el |-> Head(hits)]

isPriceProp(e) == e.itemprop = "price"
isCurrencyProp(e) == e.itemprop = "priceCurrency"
isNameProp(e) == e.itemprop = "name"
isImageProp(e) == e.itemprop = "image"
isH1(e) == e.tag = "h1"
isOgImage(e) == e.tag = "meta" /\ e.prop = "og:image"
isPriceClass(e) == contains(e.cls, <<"p","r","i","c","e">>) /\ e.tag \notin {"script", "style"}
isDataPrice(e) == e.dataPrice
isTwitterData(e) == e.tag = "meta" /\ e.mname = "twitter:data1"
isTitleClass(e) == contains(e.cls, <<"t","i","t","l","e">>)
isVisibleName(e) == isH1(e) \/ isTitleClass(e) \/ isNameProp(e)
isScriptName(e) == isH1(e) \/ isNameProp(e)
isMetaCurr(e) ==
    e.tag = "meta" /\ (e.itemprop = "priceCurrency" \/ e.prop = "product:price:currency")
isInlineScript(e) == e.tag = "script" /\ isNull(e.src)
isOldClass(e) ==
    \/ contains(e.cls, <<"o","l","d">>) \/ contains(e.cls, <<"w","a","s">>) \/ contains(e.cls, <<"s","t","r","i","k","e">>)
    \/ contains(e.cls, <<"s","t","a","t","t">>) \/ contains(e.cls, <<"a","n","t","e","s">>)
isStrikeTag(e) == e.tag \in {"s", "del"}

ogImageWith(imgMeta) ==
    IF imgMeta.found THEN OrElse(imgMeta.el.content, Empty) ELSE Empty
ogImageOf(doc) == ogImageWith(firstEl(SelectSeq(doc.els, isOgImage)))

\* a scan's push: nothing when getNum gave null
domPush(source, name, price_new, currency, url, image) ==
    IF isNull(price_new) THEN <<>>
    ELSE <<Item(source, name, Null, price_new, Null, Null, currency, Null, url,
                image, Null, Null)>>

elText(found) == IF found.found THEN Str(strTrim(found.el.text)) ELSE Null
orFirst(found, hits) == IF found.found THEN found ELSE firstEl(hits)

microCur(cEl) == IF cEl.found THEN OrElse(cEl.el.content, Str(txt(cEl.el))) ELSE Null
microImage(imgEl) ==
    IF imgEl.found THEN OrElse(imgEl.el.content, OrElse(imgEl.el.src, Empty)) ELSE Empty

microRecord(doc, url, val) ==
    domPush("dom-microdata",
            OrElse(elText(orFirst(firstEl(SelectSeq(doc.els, isNameProp)), SelectSeq(doc.els, isH1))),
                   OrElse(doc.title, Empty)),
            getNum(val),
            OrElse(currencyFrom(microCur(firstEl(SelectSeq(doc.els, isCurrencyProp)))),
                   currencyFrom(val)),
            url,
            microImage(orFirst(firstEl(SelectSeq(doc.els, isImageProp)), SelectSeq(doc.els, isOgImage))))

\* 1) microdata: the record pushed for one [itemprop="price"] element, or none
domMicroItem(doc, url, el) == microRecord(doc, url, OrElse(el.content, Str(txt(el))))

nameOr(nameEl, title) ==
    IF nameEl.found THEN Str(strTrim(nameEl.el.text)) ELSE OrElse(title, Empty)

visibleCur(c0, metaCurr) ==
    IF truthy(c0) THEN c0
    ELSE IF metaCurr.found THEN currencyFrom(metaCurr.el.content)
    ELSE c0

visibleRecord(doc, url, val) ==
    domPush("dom-visible", nameOr(firstEl(SelectSeq(doc.els, isVisibleName)), doc.title),
            getNum(val), visibleCur(currencyFrom(val), firstEl(SelectSeq(doc.els, isMetaCurr))),
            url, ogImageOf(doc))

\* 2) visible price elements: the record pushed for one price node, or none
domVisibleItem(doc, url, el) ==
    visibleRecord(doc, url, IF el.tag = "meta" THEN el.content ELSE Str(txt(el)))

\* 3) inline scripts: the record pushed for one script, or none
domScriptItem(doc, url, el) ==
    IF isNull(el.priceCap) THEN <<>>
    ELSE domPush("dom-script", nameOr(firstEl(SelectSeq(doc.els, isScriptName)), doc.title),
                 getNum(el.priceCap), el.curCap, url, ogImageOf(doc))

\* the body of scan 1, 2 or 3 for one element
scanItem(scan, doc, url, el) ==
    IF scan = 1 THEN domMicroItem(doc, url, el)
    ELSE IF scan = 2 THEN domVisibleItem(doc, url, el)
    ELSE domScriptItem(doc, url, el)

RECURSIVE flatMap(_, _, _, _)
\* the records a scan pushes over the elements of els, in order
flatMap(scan, doc, url, els) ==
    IF els = <<>> THEN <<>>
    ELSE scanItem(scan, doc, url, Head(els)) \o flatMap(scan, doc, url, Tail(els))

\* if (n != null) return n
numOrNext(n, next) == IF ~isNull(n) THEN n ELSE next

RECURSIVE firstNum(_)
\* the for loop of findOldPrice
firstNum(cands) ==
    IF cands = <<>> THEN Null
    ELSE numOrNext(getNum(Str(Head(cands).text)), firstNum(Tail(cands)))

\* 4) findOldPrice
findOldPrice(doc) ==
    firstNum(SelectSeq(doc.els, isOldClass) \o SelectSeq(doc.els, isStrikeTag))

\* the body of the back-fill loop for one record
backfill(it, oldPrice) ==
    IF isNull(it.price_old) /\ ~isNull(it.price_new) /\ Gt(oldPrice, it.price_new)
    THEN [it EXCEPT !.price_old = oldPrice,
                    !.discount_pct = PctOff(it.price_new, oldPrice)]
    ELSE it

\* if (oldPrice != null) for (const it of out) ...
backfillAll(out, oldPrice) ==
    IF ~isNull(oldPrice) THEN [i \in 1..Len(out) |-> backfill(out[i], oldPrice)]
    ELSE out

\* scans 1 to 3, in order
domScans(doc, url) ==
    flatMap(1, doc, url, SelectSeq(doc.els, isPriceProp))
      \o flatMap(2, doc, url,
                 SelectSeq(doc.els, isPriceClass) \o SelectSeq(doc.els, isDataPrice)
                   \o SelectSeq(doc.els, isTwitterData))
      \o flatMap(3, doc, url, SelectSeq(doc.els, isInlineScript))

extractFromDom(doc, url) == backfillAll(domScans(doc, url), findOldPrice(doc))

-----------------------------------------------------------------------------
(* page content: constructors *)

NoBrand == [isObject |-> FALSE, name |-> Null, v |-> Null]
NoImage == [isArray |-> FALSE, first |-> Null, v |-> Null]

\* an offer object with the given price, listPrice, highPrice and priceCurrency
Ofr(price, listPrice, highPrice, cur) ==
    [isNull |-> FALSE, price |-> price, lowPrice |-> Null, highPrice |-> highPrice,
     listPrice |-> listPrice, hasSpec |-> FALSE, specPrice |-> Null,
     priceCurrency |-> cur, availability |-> Null]
NullOfr == [Ofr(Null, Null, Null, Null) EXCEPT !.isNull = TRUE]

\* an object of '@type' Product
Prod(name, url, offers) ==
    [isNull |-> FALSE, types |-> <<<<"P","r","o","d","u","c","t">>>>, name |-> name, brand |-> NoBrand,
     image |-> NoImage, url |-> url,
     offers |-> [kind |-> IF offers = <<>> THEN "none" ELSE "many", list |-> offers]]
NullG == [Prod(Null, Null, <<>>) EXCEPT !.isNull = TRUE]

Node(g) == [isNull |-> FALSE, hasGraph |-> FALSE, graph |-> <<>>, g |-> g]
GraphNode(gs) == [isNull |-> FALSE, hasGraph |-> TRUE, graph |-> gs, g |-> NullG]
NullNode == [Node(NullG) EXCEPT !.isNull = TRUE]
Block(nodes) == [parsed |-> TRUE, nodes |-> nodes]
BadBlock == [parsed |-> FALSE, nodes |-> <<>>]

NoOg == [amt |-> Null, curr |-> Null, title |-> Null, img |-> Null]
Og(amt, curr, title) == [amt |-> amt, curr |-> curr, title |-> title, img |-> Null]

El(tag, cls, text) ==
    [tag |-> tag, cls |-> cls, itemprop |-> "", prop |-> "", mname |-> "",
     content |-> Null, src |-> Null, dataPrice |-> FALSE, text |-> text,
     priceCap |-> Null, curCap |-> Null]
PropEl(tag, itemprop, content, text) ==
    [El(tag, <<>>, text) EXCEPT !.itemprop = itemprop, !.content = content]
ScriptEl(priceCap, curCap) ==
    [El("script", <<>>, <<>>) EXCEPT !.priceCap = priceCap, !.curCap = curCap]
NoDom == [title |-> Empty, els |-> <<>>]

Page(url, ld, og, dom) == [url |-> url, ld |-> ld, og |-> og, dom |-> dom]

-----------------------------------------------------------------------------
(* page content: the pages the scraper is run on *)

UrlCream == Str(<<"h","t","t","p","s",":","/","/","a",".","d","e","/","p","/","1","2","3">>)
UrlSoap == Str(<<"h","t","t","p","s",":","/","/","a",".","d","e","/","p","/","2">>)
UrlSerum == Str(<<"h","t","t","p","s",":","/","/","a",".","d","e","/","p","/","3">>)
UrlDom == Str(<<"h","t","t","p","s",":","/","/","a",".","d","e","/","p","/","4">>)
UrlMask == Str(<<"h","t","t","p","s",":","/","/","a",".","d","e","/","p","/","5">>)
UrlList == Str(<<"h","t","t","p","s",":","/","/","a",".","d","e","/","c">>)
UrlListCom == Str(<<"h","t","t","p","s",":","/","/","b",".","c","o","m","/","c">>)

\* one product with a discounted offer, repeated by the OG tags under a name
\* that differs in letter case
PageCream ==
    Page(UrlCream,
         <<Block(<<Node(Prod(Str(<<"M","o","i","s","t","u","r","e"," ","C","r","e","a","m">>), UrlCream,
                              <<Ofr(Num(2990, 100), Num(3990, 100), Null, Str(EUR))>>))>>)>>,
         Og(Str(<<"2","9",".","9","0">>), Str(EUR), Str(<<"m","o","i","s","t","u","r","e"," ","c","r","e","a","m">>)), NoDom)

\* one product, no url of its own, whose offers pair the price with an equal,
\* a lower and a higher reference price, in an '@graph' after a block that
\* fails to parse
PageSoap ==
    Page(UrlSoap,
         <<BadBlock,
           Block(<<GraphNode(<<Prod(Str(<<"S","o","a","p">>), Null,
                    <<Ofr(Str(<<"1","0",",","0","0">>), Whole(10), Null, Null),
                      Ofr(Whole(12), Whole(8), Null, Str(EUR)),
                      Ofr(Whole(5), Null, Whole(9), Null),
                      Ofr(Whole(5), Null, Whole(9), Str(EUR)),
                      Ofr(Null, Whole(9), Null, Str(EUR))>>)>>)>>)>>,
         NoOg, NoDom)

\* a product without offers; the prices are in the rendered document only
PageSerum ==
    Page(UrlSerum,
         <<Block(<<Node(Prod(Str(<<"S","e","r","u","m">>), UrlSerum, <<>>))>>)>>,
         NoOg,
         [title |-> Str(<<"S","e","r","u","m"," ","s","h","o","p">>),
          els |-> <<El("h1", <<>>, <<" ","S","e","r","u","m"," ">>),
                    El("span", <<"p","r","i","c","e","-","n","o","w">>, <<PoundSign,"1","2",".","5","0">>),
                    El("del", <<>>, <<PoundSign,"1","5">>)>>])

\* no structured data: microdata, a visible price, an inline script and
\* struck-through prices, the first of them without a number in it
PageDom ==
    Page(UrlDom, <<>>, NoOg,
         [title |-> Str(<<"T","o","n","i","c">>),
          els |-> <<PropEl("meta", "price", Str(<<"8",".","0","0">>), <<>>),
                    PropEl("meta", "priceCurrency", Str(<<"p","l","n">>), <<>>),
                    El("div", <<"p","r","i","c","e">>, <<"7",",","5","0">>),
                    El("b", <<"p","r","i","c","e">>, <<"-","5">>),
                    El("i", <<"p","r","i","c","e">>, <<"n","/","a">>),
                    ScriptEl(Str(<<"6">>), Null),
                    El("s", <<>>, <<>>),
                    El("s", <<>>, <<"9">>)>>])

\* OG tags only, without a currency tag and without a currency in the amount
PageMask ==
    Page(UrlMask, <<>>, Og(Str(<<"1","9",",","9","9">>), Null, Str(<<"M","a","s","k">>)), NoDom)

\* priced records that lack a name, and an infinite price
PageNoName ==
    Page(UrlMask,
         <<Block(<<Node(Prod(Null, Null, <<Ofr(Whole(4), Whole(5), Null, Null)>>)),
                   Node(Prod(Str(<<"G","l","o","w">>), Null, <<Ofr(NegInf, Whole(5), Null, Str(EUR)),
                                                Ofr(Whole(5), PosInf, Null, Str(EUR))>>))>>)>>,
         Og(Str(<<"4">>), Null, Null), NoDom)

\* an LD+JSON array that holds a null
PageNullNode ==
    Page(UrlSoap,
         <<Block(<<Node(Prod(Str(<<"S","o","a","p">>), Null, <<Ofr(Whole(3), Null, Null, Null)>>)),
                   NullNode>>)>>,
         NoOg, NoDom)

PageEmpty == Page(UrlDom, <<>>, NoOg, NoDom)

MaxCatalog == 61

\* a listing page whose LD+JSON carries MaxCatalog products, priced 1, 2, ...
PageCatalog(url) ==
    Page(url,
         <<Block([i \in 1..MaxCatalog |->
                    Node(Prod(Str(<<"I","t","e","m">>), Null, <<Ofr(Whole(i), Null, Null, Null)>>))])>>,
         NoOg, NoDom)

\* the product pages of the shop
DetailPages ==
    {PageCream, PageSoap, PageSerum, PageDom, PageMask, PageNoName, PageNullNode,
     PageEmpty}

\* the listing pages of the shop
ListingPages ==
    {[PageCream EXCEPT !.url = UrlList], [PageMask EXCEPT !.url = UrlListCom],
     [PageSerum EXCEPT !.url = UrlList], [PageNullNode EXCEPT !.url = UrlList],
     [PageEmpty EXCEPT !.url = UrlListCom]}

\* the pages of the catalog site
CatalogDetailPages == {PageCream, PageNoName, PageEmpty}
CatalogListingPages == {PageCatalog(UrlList)}

UrlMoisture ==
    Str(<<"h","t","t","p","s",":","/","/","s","h","o","p",".">>
          \o <<"e","x","a","m","p","l","e",".","d","e","/","p","/","1","2","3">>)

\* the only product data of the page is one LD+JSON Product with a single offer
PageMoisture ==
    Page(UrlMoisture,
         <<Block(<<Node(Prod(Str(<<"M","o","i","s","t","u","r","e"," ","C","r","e","a","m">>), UrlMoisture,
                              <<Ofr(Num(2990, 100), Num(3990, 100), Null, Str(EUR))>>))>>)>>,
         NoOg, NoDom)

\* the pages of the outlet site
OutletListingPages == {PageMoisture}
OutletDetailPages == {PageMoisture, PageSerum, PageEmpty}

listingPagesOf(w) ==
    IF w = "catalog" THEN CatalogListingPages
    ELSE IF w = "outlet" THEN OutletListingPages
    ELSE ListingPages
detailPagesOf(w) ==
    IF w = "catalog" THEN CatalogDetailPages
    ELSE IF w = "outlet" THEN OutletDetailPages
    ELSE DetailPages

-----------------------------------------------------------------------------
(* scrapeDetail *)

GotoMax == 3
DETAIL_LIMIT == 10
DetailPoolMax == 4
OutputCap == 60
OutputCap0 == 50

MaxLinks == 2

\* attempts page.goto may take before the failure is thrown
gotoLimit(v) == IF v = "bot" THEN GotoMax ELSE 1

\* new URL(u).host for u = scheme://host/path
hostOf(u) ==
    LET i == CHOOSE k \in 1..(Len(u.s) - 1) : u.s[k] = "/" /\ u.s[k + 1] = "/"
        rest == SubSeq(u.s, i + 2, Len(u.s))
        j == IF includes(rest, "/")
             THEN (CHOOSE k \in 1..Len(rest) :
                      rest[k] = "/" /\ \A m \in 1..(k-1) : rest[m] # "/") - 1
             ELSE Len(rest)
    IN  Str(SubSeq(rest, 1, j))

priced(it) == ~isNull(it.price_new)

\* needDom: no record so far carries a price
needDom(its) == ~\E i \in 1..Len(its) : priced(its[i])

\* the record scrapeDetail pushes for one record d of extractFromDom
domRecord(d, h, ctry) ==
    Item(d.source, trim(d.name, NameMax), OrElse(d.brand, Null),
         Coalesce(d.price_new, Null), Coalesce(d.price_old, Null),
         Coalesce(d.discount_pct, Null), Coalesce(d.currency, Null),
         Coalesce(d.availability, Null), d.url, OrElse(d.image, Null), h, ctry)

NoVisit ==
    [ok |-> FALSE, structured |-> <<>>, domRan |-> FALSE, domRaw |-> <<>>,
     domItems |-> <<>>, items |-> <<>>]

visitOf(structured, domRan, domRaw, domItems) ==
    [ok |-> TRUE, structured |-> structured, domRan |-> domRan, domRaw |-> domRaw,
     domItems |-> domItems, items |-> dedupe(structured \o domItems)]

domRecords(domRaw, h, ctry) == [i \in 1..Len(domRaw) |-> domRecord(domRaw[i], h, ctry)]

visitWithDom(structured, domRaw, h, ctry) ==
    visitOf(structured, TRUE, domRaw, domRecords(domRaw, h, ctry))

\* scrapeDetail from the records of the structured extractors on
detailVisit(v, structured, page, h, ctry) ==
    IF v = "bot" /\ needDom(structured)
    THEN visitWithDom(structured, extractFromDom(page.dom, page.url), h, ctry)
    ELSE visitOf(structured, FALSE, <<>>, <<>>)

afterLd(v, ld, page, h, ctry) ==
    IF ld.threw THEN NoVisit
    ELSE detailVisit(v, ld.items \o extractFromOg(v, page, page.url, h, ctry),
                     page, h, ctry)

\* the try block of scrapeDetail once the page is loaded: the records of the
\* structured extractors, whether the DOM fallback ran, its records as
\* emitted and as pushed, and the list returned (part_000 has no DOM fallback)
scrapeDetail(v, page, h, ctry) ==
    afterLd(v, extractFromLdJson(v, page, page.url, h, ctry), page, h, ctry)

-----------------------------------------------------------------------------
(* scrapeUrl *)

listingAfterLd(v, ld, page, h, ctry) ==
    IF ld.threw THEN NoVisit
    ELSE visitOf(ld.items \o extractFromOg(v, page, page.url, h, ctry),
                 FALSE, <<>>, <<>>)

\* the listing page: LD+JSON and OG only, then dedupe
scrapeListing(v, page, h, ctry) ==
    listingAfterLd(v, extractFromLdJson(v, page, page.url, h, ctry), page, h, ctry)

RECURSIVE mergeDetails_byRank(_, _)
\* mergeDetails in the order in which the calls settled
mergeDetails_byRank(rs, i) ==
    IF i > Len(rs) THEN <<>>
    ELSE LET k == CHOOSE j \in 1..Len(rs) : rs[j].rank = i
         IN  (IF rs[k].res.ok /\ rs[k].res.items # <<>> THEN rs[k].res.items ELSE <<>>)
               \o mergeDetails_byRank(rs, i + 1)

RECURSIVE mergeDetails(_, _)
\* for (const r of detailResults) if (r.ok && r.items?.length) items.push(...)
mergeDetails(rs, i) ==
    IF i > Len(rs) THEN <<>>
    ELSE (IF rs[i].res.ok /\ rs[i].res.items # <<>> THEN rs[i].res.items ELSE <<>>)
         \o mergeDetails(rs, i + 1)

fillCurrency_always(it, fallbackCurrency) ==
    [it EXCEPT !.currency = OrElse(fallbackCurrency, it.currency)]

\* currency: it.currency || fallbackCurrency || it.currency
fillCurrency(it, fallbackCurrency) ==
    [it EXCEPT !.currency = OrElse(it.currency, OrElse(fallbackCurrency, it.currency))]

keep_noname(v, it) ==
    IF v = "bot" THEN truthy(it.url) /\ ~isNull(it.price_new)
    ELSE truthy(it.url)

\* the filter of the final clean-up
keep(v, it) ==
    IF v = "bot" THEN truthy(it.name) /\ truthy(it.url) /\ ~isNull(it.price_new)
    ELSE truthy(it.name) /\ truthy(it.url)

outputCap_plus1(v) == IF v = "bot" THEN OutputCap + 1 ELSE OutputCap0 + 1

\* the slice bound of the final clean-up
outputCap(v) == IF v = "bot" THEN OutputCap ELSE OutputCap0

\* the map of the final clean-up
withDiscount(it) ==
    [it EXCEPT !.discount_pct = computeDiscount(it.price_new, it.price_old)]

slice(s, n) == SubSeq(s, 1, IF Len(s) < n THEN Len(s) ELSE n)

\* its.filter(it => keep(it))
filterKept(v, its) == SelectSeq(its, LAMBDA it : keep(v, it))

mapDiscount(kept) == [i \in 1..Len(kept) |-> withDiscount(kept[i])]

\* dedupe(items).filter(...).map(...).slice(0, cap)
cleanUp(v, its) == slice(mapDiscount(filterKept(v, dedupe(its))), outputCap(v))

Failed ==
    [ok |-> FALSE, itemsCount |-> 0, items |-> <<>>,
     host |-> Null, country |-> Null]

\* a queued scrapeDetail call; rank is the position at which its promise settles
PendingTask ==
    [st |-> "pending", tries |-> 0, page |-> PageEmpty, res |-> NoVisit, rank |-> 0]

\* the position in completion order of the call that settles next
nextRank(tasks) == Cardinality({j \in 1..Len(tasks) : tasks[j].st = "done"}) + 1
NoWork == [merged |-> <<>>, filled |-> <<>>]

idlePure == input = <<>> /\ output = <<>> /\ phase = "idle"

\* scrapeUrl at position p with nothing done yet
pipeAt(p) ==
    /\ pc = p
    /\ tries = 0
    /\ host = Null
    /\ country = Null
    /\ listing = NoVisit
    /\ items = <<>>
    /\ detail = <<>>
    /\ work = NoWork
    /\ result = Failed

Init ==
    /\ idlePure
    /\ variant \in {"bot", "part000"}
    /\ web = "shop"
    /\ pipeAt("start")

InitCatalog ==
    /\ idlePure
    /\ variant \in {"bot", "part000"}
    /\ web = "catalog"
    /\ pipeAt("start")

InitOutlet ==
    /\ idlePure
    /\ variant \in {"bot", "part000"}
    /\ web = "outlet"
    /\ pipeAt("start")

\* launchBrowser or newContext rejects: both are awaited before the try block,
\* so scrapeUrl itself rejects
LaunchFail ==
    /\ pc = "start"
    /\ tries = 0
    /\ pc' = "rejected"
    /\ UNCHANGED <<pureVars, envVars, tries, host, country, listing, items, detail,
                   work, result>>

\* a navigation attempt on the listing page fails; the last one allowed throws
\* and scrapeUrl's catch returns the failure
GotoFail ==
    /\ pc = "start"
    /\ tries < gotoLimit(variant)
    /\ tries' = tries + 1
    /\ pc' = IF tries + 1 = gotoLimit(variant) THEN "done" ELSE pc
    /\ result' = Failed
    /\ UNCHANGED <<pureVars, envVars, host, country, listing, items, detail, work>>

countryOf(h) == OrElse(guessCountryFromHost(h.s), Str(UNK))

\* the listing page loads: host and country, the records of the page itself,
\* then the product links, cut to DETAIL_LIMIT, are queued; an extractor that
\* throws ends scrapeUrl in its catch
ListingLoaded(page, nLinks) ==
    /\ pc = "start"
    /\ host' = hostOf(page.url)
    /\ country' = countryOf(host')
    /\ listing' = scrapeListing(variant, page, host', country')
    /\ items' = listing'.items
    /\ detail' = IF listing'.ok
                 THEN [i \in 1..(IF nLinks < DETAIL_LIMIT THEN nLinks ELSE DETAIL_LIMIT)
                         |-> PendingTask]
                 ELSE <<>>
    /\ pc' = IF listing'.ok THEN "details" ELSE "done"
    /\ result' = Failed
    /\ UNCHANGED <<pureVars, envVars, tries, work>>

running == Cardinality({i \in 1..Len(detail) : detail[i].st = "goto"})
poolSize == IF DETAIL_LIMIT < DetailPoolMax THEN DETAIL_LIMIT ELSE DetailPoolMax

\* p-limit starts the next queued scrapeDetail when a slot is free
DetailStart(i) ==
    /\ pc = "details"
    /\ detail[i].st = "pending"
    /\ \A j \in 1..(i - 1) : detail[j].st # "pending"
    /\ running < poolSize
    /\ detail' = [detail EXCEPT ![i].st = "goto"]
    /\ UNCHANGED <<pureVars, envVars, pc, tries, host, country, listing, items,
                   work, result>>

\* context.newPage() of a detail call rejects: it is awaited before the try
\* block of scrapeDetail, so the call rejects, Promise.all rejects with it and
\* scrapeUrl's catch returns the failure
DetailNewPageFail(i) ==
    /\ pc = "details"
    /\ detail[i].st = "goto"
    /\ detail[i].tries = 0
    /\ detail' = [detail EXCEPT ![i].st = "rejected"]
    /\ pc' = "done"
    /\ result' = Failed
    /\ UNCHANGED <<pureVars, envVars, tries, host, country, listing, items, work>>

\* a navigation attempt of a detail page fails; the last one allowed throws
\* and scrapeDetail's catch returns { ok: false }
DetailGotoFail(i) ==
    /\ pc = "details"
    /\ detail[i].st = "goto"
    /\ detail[i].tries < gotoLimit(variant)
    /\ detail' = [detail EXCEPT
                    ![i].tries = @ + 1,
                    ![i].st = IF detail[i].tries + 1 = gotoLimit(variant)
                              THEN "done" ELSE @,
                    ![i].rank = IF detail[i].tries + 1 = gotoLimit(variant)
                                THEN nextRank(detail) ELSE @]
    /\ UNCHANGED <<pureVars, envVars, pc, tries, host, country, listing, items,
                   work, result>>

\* a detail page loads and scrapeDetail returns
DetailLoaded(i, page) ==
    /\ pc = "details"
    /\ detail[i].st = "goto"
    /\ detail' = [detail EXCEPT
                    ![i].st = "done",
                    ![i].rank = nextRank(detail),
                    ![i].page = page,
                    ![i].res = scrapeDetail(variant, page, host, country)]
    /\ UNCHANGED <<pureVars, envVars, pc, tries, host, country, listing, items,
                   work, result>>

fillAll(merged, fallbackCurrency) ==
    [i \in 1..Len(merged) |-> fillCurrency(merged[i], fallbackCurrency)]

\* worked with the currency fallback left out
worked_nofill(merged, fallbackCurrency) ==
    [merged |-> merged, filled |-> merged]

\* the list before and after the currency fallback
worked(merged, fallbackCurrency) ==
    [merged |-> merged, filled |-> fillAll(merged, fallbackCurrency)]

\* Promise.all has settled: merge, currency fallback, clean-up, return
Finalize ==
    /\ pc = "details"
    /\ \A i \in 1..Len(detail) : detail[i].st = "done"
    /\ work' = worked(items \o mergeDetails(detail, 1),
                      defaultCurrencyForCountry(country))
    /\ items' = cleanUp(variant, work'.filled)
    /\ result' = [ok |-> TRUE, itemsCount |-> Len(items'),
                  items |-> items', host |-> host, country |-> country]
    /\ pc' = "done"
    /\ UNCHANGED <<pureVars, envVars, tries, host, country, listing, detail>>

Next ==
    \/ LaunchFail
    \/ GotoFail
    \/ \E page \in listingPagesOf(web), nLinks \in 0..MaxLinks :
          ListingLoaded(page, nLinks)
    \/ \E i \in 1..Len(detail) : DetailStart(i)
    \/ \E i \in 1..Len(detail) : DetailNewPageFail(i)
    \/ \E i \in 1..Len(detail) : DetailGotoFail(i)
    \/ \E i \in 1..Len(detail), page \in detailPagesOf(web) : DetailLoaded(i, page)
    \/ Finalize

Spec == Init /\ [][Next]_vars
SpecCatalog == InitCatalog /\ [][Next]_vars
SpecOutlet == InitOutlet /\ [][Next]_vars

-----------------------------------------------------------------------------
(* computeDiscount on its own: every pair of DiscVals as arguments *)

DiscVals ==
    {Null, NaN, PosInf, NegInf, Zero, Whole(-5), Whole(10), Whole(50), Whole(80),
     Whole(100), Num(299, 10), Num(399, 10), Str(<<"8","0">>)}

InitDiscount ==
    /\ input \in DiscVals \X DiscVals
    /\ output = <<>>
    /\ phase = "ready"
    /\ variant = "bot"
    /\ web = "none"
    /\ pipeAt("idle")

\* computeDiscount(priceNew, priceOld) is called and returns
CallComputeDiscount ==
    /\ phase = "ready"
    /\ output' = <<computeDiscount(input[1], input[2])>>
    /\ phase' = "returned"
    /\ UNCHANGED <<input, envVars, pipeVars>>

NextDiscount == CallComputeDiscount

SpecDiscount == InitDiscount /\ [][NextDiscount]_vars

\* r is q rounded to one decimal place, halves up, for the exact quotient
\* q = ((b - a) / b) * 100 of the finite numbers a and b, b > 0
IsPctRounded(a, b, r) ==
    /\ isFinite(r)
    /\ r.d \in {1, 10}
    /\ 2 * (r.n * (10 \div r.d)) * (b.n * a.d) - (b.n * a.d)
         <= 2000 * (b.n * a.d - a.n * b.d)
    /\ 2000 * (b.n * a.d - a.n * b.d)
         < 2 * (r.n * (10 \div r.d)) * (b.n * a.d) + (b.n * a.d)

\* C1: computeDiscount returns null unless both arguments are finite numbers,
\* priceOld > 0 and priceNew < priceOld; otherwise it returns
\* ((priceOld - priceNew) / priceOld) * 100 rounded to one decimal place;
\* (80, 100) gives 20, (100, 80) and (50, 50) give null
C1_ComputeDiscount ==
    phase = "returned" =>
        /\ IF /\ isFinite(input[1]) /\ isFinite(input[2])
              /\ Gt(input[2], Zero) /\ Lt(input[1], input[2])
           THEN IsPctRounded(input[1], input[2], output[1])
           ELSE output[1] = Null
        /\ input = <<Whole(80), Whole(100)>> => output[1] = Whole(20)
        /\ input = <<Whole(100), Whole(80)>> => output[1] = Null
        /\ input = <<Whole(50), Whole(50)>> => output[1] = Null

\* a discount was computed: (29.9, 39.9) gives 25.1
C1_Witness ==
    /\ phase = "returned"
    /\ input = <<Num(299, 10), Num(399, 10)>>
    /\ output = <<Num(251, 10)>>

-----------------------------------------------------------------------------
(* dedupe on its own: every list of at most MaxList of the DedupeItems *)

MaxList == 3

Deal(source, name, url, price_new, currency) ==
    Item(source, name, Null, price_new, Null, Null, currency, Null, url, Null,
         Null, Null)

DealLd == Deal("ldjson", Str(<<"A","b">>), Str(<<"u">>), Whole(5), Str(EUR))
DealOg == Deal("og", Str(<<"A","b">>), Str(<<"u">>), Whole(5), Str(EUR))
DealNameCase == Deal("og", Str(<<"A","B">>), Str(<<"u">>), Whole(5), Str(EUR))
DealUrlCase == Deal("ldjson", Str(<<"A","b">>), Str(<<"U">>), Whole(5), Str(EUR))
DealCurCase == Deal("ldjson", Str(<<"A","b">>), Str(<<"u">>), Whole(5), Str(<<"e","u","r">>))
DealBare == Deal("ldjson", Str(<<"A","b">>), Str(<<"u">>), Null, Null)
DealNoName == Deal("dom-visible", Null, Str(<<"u">>), Whole(5), Str(EUR))
DealDearer == Deal("ldjson", Str(<<"A","b">>), Str(<<"u">>), Whole(6), Str(EUR))

\* a name that ends where the url of the other begins, around a '|'
DealPipeName == Deal("ldjson", Str(<<"a","|","b">>), Str(<<"u">>), Whole(5), Str(EUR))
DealPipeUrl == Deal("ldjson", Str(<<"a">>), Str(<<"b","|","u">>), Whole(5), Str(EUR))

DedupeItems ==
    {DealLd, DealOg, DealNameCase, DealUrlCase, DealCurCase, DealBare, DealNoName,
     DealDearer, DealPipeName, DealPipeUrl}

InitDedupe ==
    /\ input \in UNION {[1..n -> DedupeItems] : n \in 0..MaxList}
    /\ output = <<>>
    /\ phase = "ready"
    /\ variant = "bot"
    /\ web = "none"
    /\ pipeAt("idle")

\* dedupe(items) is called on the input and returns
CallDedupe ==
    /\ phase = "ready"
    /\ output' = <<dedupe(input)>>
    /\ phase' = "returned"
    /\ UNCHANGED <<input, envVars, pipeVars>>

\* dedupe is called on the list it returned
CallDedupeAgain ==
    /\ phase = "returned"
    /\ output' = Append(output, dedupe(output[1]))
    /\ phase' = "again"
    /\ UNCHANGED <<input, envVars, pipeVars>>

NextDedupe ==
    \/ CallDedupe
    \/ CallDedupeAgain

SpecDedupe == InitDedupe /\ [][NextDedupe]_vars

\* the positions of L that hold the first occurrence of their identity key
FirstAt(L) ==
    {i \in 1..Len(L) : \A j \in 1..(i - 1) : dedupeKey(L[j]) # dedupeKey(L[i])}

\* the subsequence of L at the positions in K, in order
Pick(L, K) ==
    [k \in 1..Cardinality(K) |->
        L[CHOOSE i \in K : Cardinality({j \in K : j < i}) = k - 1]]

\* C4: dedupe's output is the subsequence of the input made of exactly the
\* first occurrence of each identity key, in input order; of two records
\* that differ only by source, the one appearing first is the one survivor
C4_FirstOccurrences ==
    phase \in {"returned", "again"} =>
        /\ output[1] = Pick(input, FirstAt(input))
        /\ (Len(input) = 2 /\ input[2] = [input[1] EXCEPT !.source = input[2].source])
              => output[1] = <<input[1]>>

\* two records differing only by source went in, the first came out
C4_Witness ==
    /\ phase = "returned"
    /\ input = <<DealOg, DealLd>>
    /\ output = <<<<DealOg>>>>

\* C5: dedupe is idempotent: dedupe(dedupe(L)) = dedupe(L)
C5_Idempotent == phase = "again" => output[2] = output[1]

\* dedupe ran twice on a list from which the first run dropped a record
C5_Witness ==
    /\ phase = "again"
    /\ input = <<DealLd, DealDearer, DealOg>>
    /\ output[1] = <<DealLd, DealDearer>>
    /\ output[2] = <<DealLd, DealDearer>>

lowerOf(v) == IF v.t = "str" THEN Str(toLowerCase(v.s)) ELSE v

\* a and b agree on (name, url, price_new, currency) up to letter case
SameUpToCase(a, b) ==
    /\ lowerOf(a.name) = lowerOf(b.name)
    /\ lowerOf(a.url) = lowerOf(b.url)
    /\ a.price_new = b.price_new
    /\ lowerOf(a.currency) = lowerOf(b.currency)

\* a and b agree on name up to letter case and exactly on url, price_new
\* and currency
SameDeal(a, b) ==
    /\ lowerOf(a.name) = lowerOf(b.name)
    /\ a.url = b.url
    /\ a.price_new = b.price_new
    /\ a.currency = b.currency

-----------------------------------------------------------------------------
(* properties of scrapeUrl *)

\* scrapeUrl has returned its list
returned == pc = "done" /\ result.ok

\* the scrapeDetail calls that have returned a list
detailsDone == {i \in 1..Len(detail) : detail[i].st = "done" /\ detail[i].res.ok}

\* C2: in every record of the list scrapeUrl returns, discount_pct is
\* ((price_old - price_new) / price_old) * 100 rounded to one decimal place
\* when both prices are finite numbers, price_old > 0 and
\* price_new < price_old, and null otherwise, whichever extractor made it
C2_DiscountDerived ==
    returned =>
        \A k \in 1..Len(items) :
            IF /\ isFinite(items[k].price_new) /\ isFinite(items[k].price_old)
               /\ Gt(items[k].price_old, Zero)
               /\ Lt(items[k].price_new, items[k].price_old)
            THEN IsPctRounded(items[k].price_new, items[k].price_old,
                              items[k].discount_pct)
            ELSE items[k].discount_pct = Null

\* the returned list holds a discounted record of the LD+JSON extractor, one
\* of the DOM fallback, and an undiscounted one
C2_Witness ==
    /\ returned
    /\ \E k \in 1..Len(items) :
          /\ items[k].source = "ldjson"
          /\ items[k].price_new = Num(299, 10)
          /\ items[k].price_old = Num(399, 10)
          /\ items[k].discount_pct = Num(251, 10)
    /\ \E k \in 1..Len(items) :
          items[k].source = "dom-visible" /\ isFinite(items[k].discount_pct)
    /\ \E k \in 1..Len(items) : items[k].discount_pct = Null

\* price_old is null or strictly greater than price_new
OldAbove(r) ==
    isNull(r.price_old) \/ (~isNull(r.price_new) /\ Gt(r.price_old, r.price_new))

AllOldAbove(rs) == \A k \in 1..Len(rs) : OldAbove(rs[k])

\* C3: in every record an extractor emits (LD+JSON, OG, DOM fallback) and in
\* every record of scrapeUrl's output, price_old is null or strictly greater
\* than price_new
C3_OldPriceAbove ==
    /\ AllOldAbove(listing.structured)
    /\ \A i \in 1..Len(detail) :
          /\ AllOldAbove(detail[i].res.structured)
          /\ AllOldAbove(detail[i].res.domRaw)
          /\ AllOldAbove(detail[i].res.domItems)
          /\ AllOldAbove(detail[i].res.items)
    /\ AllOldAbove(items)

\* the LD+JSON extractor met an equal pair (10 and 10), an inverted pair (12
\* and 8) and a proper pair (5 and 9) on one page, the DOM fallback found a
\* higher struck-through price on another, and the list was returned
C3_Witness ==
    /\ returned
    /\ \E i \in detailsDone :
          /\ detail[i].page = PageSoap
          /\ \E k \in 1..Len(detail[i].res.structured) :
                /\ detail[i].res.structured[k].price_new = Whole(10)
                /\ detail[i].res.structured[k].price_old = Null
          /\ \E k \in 1..Len(detail[i].res.structured) :
                /\ detail[i].res.structured[k].price_new = Whole(12)
                /\ detail[i].res.structured[k].price_old = Null
          /\ \E k \in 1..Len(detail[i].res.structured) :
                /\ detail[i].res.structured[k].price_new = Whole(5)
                /\ detail[i].res.structured[k].price_old = Whole(9)
    /\ \E i \in detailsDone :
          \E k \in 1..Len(detail[i].res.domRaw) :
                /\ detail[i].res.domRaw[k].price_new = Num(125, 10)
                /\ detail[i].res.domRaw[k].price_old = Whole(15)

\* no record of rs carries a price
NoPriced(rs) == \A k \in 1..Len(rs) : isNull(rs[k].price_new)

isDomSource(r) == r.source \in {"dom-microdata", "dom-visible", "dom-script"}

\* in rs no record of the DOM fallback stands before a structured one
DomLast(rs) ==
    \A j \in 1..Len(rs), k \in 1..Len(rs) :
        j < k => ~(isDomSource(rs[j]) /\ ~isDomSource(rs[k]))

\* on product page i the DOM fallback ran exactly when the structured
\* extractors gave no priced record, and its records come last
DomIffUnpriced(i) ==
    /\ detail[i].res.domRan <=> NoPriced(detail[i].res.structured)
    /\ DomLast(detail[i].res.items)

\* C7: on every page processed, the listing page as well as each
\* product page, the DOM fallback runs if and only if LD+JSON and OG gave no
\* record with a non-null price_new, and its records are appended after the
\* structured ones
C7_DomIffUnpricedEveryPage ==
    /\ listing.ok => (listing.domRan <=> NoPriced(listing.structured))
    /\ \A i \in detailsDone : DomIffUnpriced(i)

\* C8: every record of the list scrapeUrl returns has a non-empty name and a
\* non-empty url, and in bot.mjs a non-null price_new as well
C8_NameUrlPrice ==
    returned =>
        \A k \in 1..Len(items) :
            /\ truthy(items[k].name)
            /\ truthy(items[k].url)
            /\ variant = "bot" => ~isNull(items[k].price_new)

\* bot.mjs returned a non-empty list after the clean-up met a record without
\* a name and a record without a price
C8_Witness ==
    /\ returned
    /\ variant = "bot"
    /\ items # <<>>
    /\ \E k \in 1..Len(work.filled) : ~truthy(work.filled[k].name)
    /\ \E k \in 1..Len(work.filled) :
          truthy(work.filled[k].name) /\ isNull(work.filled[k].price_new)

\* the deduplicated and filtered list, each record with its discount
survivors == mapDiscount(filterKept(variant, dedupe(work.filled)))

\* items is the first cap records of full, in order
FirstOf(full, cap) ==
    /\ Len(items) <= Len(full)
    /\ Len(items) < Len(full) => Len(items) = cap
    /\ items = SubSeq(full, 1, Len(items))

\* C9: the returned list is never longer than 60 (bot.mjs) or 50 (part_000),
\* it is the first 60 (50) records, in order, of the deduplicated and
\* filtered list, and itemsCount is its length
C9_Capped ==
    returned =>
        /\ variant = "bot" => Len(items) <= OutputCap
        /\ variant = "part000" => Len(items) <= OutputCap0
        /\ FirstOf(survivors, IF variant = "bot" THEN OutputCap ELSE OutputCap0)
        /\ result.itemsCount = Len(items)
        /\ result.items = items

\* bot.mjs returned exactly 60 records of more than 60 survivors
C9_Witness ==
    /\ returned
    /\ variant = "bot"
    /\ Len(survivors) > OutputCap
    /\ Len(items) = OutputCap
    /\ result.itemsCount = OutputCap

\* C10: the currency fallback leaves every field but currency alone, gives
\* defaultCurrencyForCountry(country) to the records whose currency is null
\* or empty (which stay as they are when the country has no entry), and
\* leaves every other record's currency alone
C10_CurrencyFallback ==
    returned =>
        /\ Len(work.filled) = Len(work.merged)
        /\ \A k \in 1..Len(work.merged) :
              work.filled[k] =
                  [work.merged[k] EXCEPT !.currency =
                      IF ~isNull(@) /\ @ # Str(<<>>) THEN @
                      ELSE IF isNull(defaultCurrencyForCountry(country)) THEN @
                      ELSE defaultCurrencyForCountry(country)]

\* a record without a currency got EUR on a German host next to a record
\* that kept the currency its extractor found
C10_Witness ==
    /\ returned
    /\ country = Str(<<"D", "E">>)
    /\ \E k \in 1..Len(work.merged) :
          /\ isNull(work.merged[k].currency)
          /\ work.filled[k].currency = Str(EUR)
    /\ \E k \in 1..Len(work.merged) :
          /\ ~isNull(work.merged[k].currency)
          /\ work.merged[k].currency # Str(EUR)
          /\ work.filled[k].currency = work.merged[k].currency

\* the scrapeDetail calls whose page loaded, so that the extractors ran on it
detailsLoaded ==
    {i \in 1..Len(detail) : detail[i].st = "done" /\ detail[i].tries < gotoLimit(variant)}

\* C11: extractFromLdJson and extractFromOg never raise: on every page that
\* loaded, the listing page and each product page, whatever its LD+JSON
\* blocks hold (a block that fails to parse, an array with a null in it),
\* the extractors returned a list and the page's visit ended well
C11_ExtractorsNeverRaise ==
    /\ (pc # "start" /\ ~isNull(host)) => listing.ok
    /\ \A i \in detailsLoaded : detail[i].res.ok

-----------------------------------------------------------------------------
(* country resolution *)

HostNames == {<<"s","h","o","p",".","e","x","a","m","p","l","e">>, <<"a">>}
HostSuffixes ==
    {TldTable[i][1] : i \in 1..Len(TldTable)} \cup {<<".","c","o","m">>, <<".","x","y","z">>}
UrlPaths == {<<"/","c">>, <<"/","e","s","-","e","s","/","c">>}

\* the feed urls: https://<name><suffix><path>
CountryUrls ==
    {Str(<<"h","t","t","p","s",":","/","/">> \o n \o x \o p) :
        n \in HostNames, x \in HostSuffixes, p \in UrlPaths}

InitCountry ==
    /\ input \in CountryUrls
    /\ output = <<>>
    /\ phase = "ready"
    /\ variant = "bot"
    /\ web = "none"
    /\ pipeAt("idle")

\* host = new URL(listUrl).host; country = guessCountryFromHost(host) || 'UNK'
CallResolveCountry ==
    /\ phase = "ready"
    /\ output' = <<countryOf(hostOf(input))>>
    /\ phase' = "returned"
    /\ UNCHANGED <<input, envVars, pipeVars>>

SpecCountry == InitCountry /\ [][CallResolveCountry]_vars

\* the country a path-segment locale hint names: /es-es/ names ES
localeHint(u) ==
    IF contains(u.s, <<"/","e","s","-","e","s","/">>) THEN Str(<<"E","S">>) ELSE Null

\* C12: the country of a feed url is, in priority order, the country of its
\* path-segment locale hint, the country of its top-level domain, and UNK:
\* a url with /es-es/ in its path resolves to ES whatever its host,
\* shop.example.de resolves to DE, and an unrecognized top-level domain
\* without a hint resolves to UNK
C12_CountryResolution ==
    phase = "returned" =>
        /\ ~isNull(localeHint(input)) => output[1] = localeHint(input)
        /\ (isNull(localeHint(input)) /\ endsWith(hostOf(input).s, <<".","d","e">>))
              => output[1] = Str(<<"D","E">>)
        /\ (isNull(localeHint(input)) /\ endsWith(hostOf(input).s, <<".","x","y","z">>))
              => output[1] = Str(UNK)

-----------------------------------------------------------------------------
(* number parsing *)

PriceBodies ==
    {<<"1",".","2","3","4",",","5","6">>, <<"1",",","2","3","4",".","5","6">>, 
     <<"1","2",".","3","4","5",".","6","7","8",",","9","0">>, 
     <<"1","2",",","3","4","5",",","6","7","8",".","9","0">>, <<"1","9",",","9","9">>, 
     <<"1","9",".","9","9">>, <<"1",",","2","3","4",",","5","6","7">>, 
     <<"1",".","2",".","3">>, <<"a","b","c">>, <<>>, <<"-">>, <<"1","2","3","4">>, 
     <<"0",",","5">>, <<".","5">>, <<"5",".">>, <<"1",".","2","3","4">>, 
     <<"1"," ","2","3","4",",","5","6">>, 
     <<"1","&","n","b","s","p",";","2","3","4",",","5","6">>}
PricePrefixes == {<<>>, <<EuroSign," ">>, <<"P","L","N"," ">>}

\* the texts handed to the number parsers
PriceTexts == {Str(p \o b) : p \in PricePrefixes, b \in PriceBodies} \cup {Null, Whole(5)}

InitParse ==
    /\ input \in PriceTexts
    /\ output = <<>>
    /\ phase = "ready"
    /\ variant \in {"bot", "part000"}
    /\ web = "none"
    /\ pipeAt("idle")

\* parseNumberLocalized(input) is called and returns
CallParseNumber ==
    /\ phase = "ready"
    /\ output' = <<IF variant = "bot" THEN parseNumberLocalized(input)
                   ELSE parseNumberLocalized0(input),
                   IF variant = "bot" /\ input.t = "str" THEN getNum(input) ELSE Null>>
    /\ phase' = "returned"
    /\ UNCHANGED <<input, envVars, pipeVars>>

SpecParse == InitParse /\ [][CallParseNumber]_vars

\* prices written with '.' thousands and ',' decimal, the other way round,
\* and with a lone comma, each with the number it denotes
Written ==
    {[text |-> <<"1",".","2","3","4",",","5","6">>, value |-> Num(123456, 100)],
     [text |-> <<"1",",","2","3","4",".","5","6">>, value |-> Num(123456, 100)],
     [text |-> <<"1","2",".","3","4","5",".","6","7","8",",","9","0">>, value |-> Num(1234567890, 100)],
     [text |-> <<"1","2",",","3","4","5",",","6","7","8",".","9","0">>, value |-> Num(1234567890, 100)],
     [text |-> <<"1","9",",","9","9">>, value |-> Num(1999, 100)],
     [text |-> <<"0",",","5">>, value |-> Num(5, 10)]}

\* s without the prefix p, when it starts with it
afterPrefix(s, p) == IF startsWith(s, p) THEN SubSeq(s, Len(p) + 1, Len(s)) ELSE s

\* the text of the input without its currency prefix
bareText(in) ==
    afterPrefix(afterPrefix(in.s, <<EuroSign," ">>), <<"P","L","N"," ">>)

\* s is a decimal numeral: an optional '-', digits with at most one '.' among
\* them, and at least one digit
IsNumeral(s) ==
    LET body == IF s # <<>> /\ Head(s) = "-" THEN Tail(s) ELSE s
    IN  /\ \A i \in 1..Len(body) : body[i] \in DigitSet \cup {"."}
        /\ Cardinality({i \in 1..Len(body) : body[i] = "."}) <= 1
        /\ \E i \in 1..Len(body) : body[i] \in DigitSet

\* the cleaned text: the characters the parser keeps, after its separator rule
cleanedText(in) == decimalRule(filterChars(toStr(in), NumChars))

\* C13: a price written with '.' thousands and ',' decimal, or the other way
\* round, or with a lone comma as the decimal point, parses to the number it
\* denotes whatever currency text surrounds it ("1.234,56" and "1,234.56"
\* both give 1234.56), and the result is null whenever the cleaned text is
\* not a finite number
C13_ParseNumberLocalized ==
    (phase = "returned" /\ input.t = "str") =>
        /\ \A w \in Written : bareText(input) = w.text => output[1] = w.value
        /\ ~IsNumeral(cleanedText(input)) => output[1] = Null

-----------------------------------------------------------------------------
(* currency detection in a text *)

\* the symbols, codes and words of the tables, in upper and in lower case
CurrencyMarks ==
    {<<EuroSign>>, <<"E","U","R">>, <<"e","u","r">>, <<PoundSign>>, <<"G","B","P">>,
     <<"g","b","p">>, <<"P","L","N">>, <<"p","l","n">>, <<"Z",LStrokeUpper>>,
     <<"z",LStrokeLower>>, <<"C","H","F">>, <<"c","h","f">>, <<"C","Z","K">>,
     <<"c","z","k">>, <<"K",CCaronUpper>>, <<"k",CCaronLower>>, <<"H","U","F">>,
     <<"h","u","f">>, <<"F","T">>, <<"f","t">>, <<"R","O","N">>, <<"r","o","n">>,
     <<"L","E","I">>, <<"l","e","i">>, <<"B","G","N">>, <<"b","g","n">>, <<"D","K","K">>,
     <<"d","k","k">>, <<"S","E","K">>, <<"s","e","k">>, <<"N","O","K">>, <<"n","o","k">>,
     <<"T","R","Y">>, <<"t","r","y">>, <<"T","L">>, <<"t","l">>, <<"$">>}

\* texts with several marks, and with none
MixedTexts ==
    {<<"n","o"," ","c","u","r","r","e","n","c","y"," ","h","e","r","e">>,
     <<"E","U","R"," ","P","L","N">>, <<"p","l","n"," ","e","u","r">>,
     <<"T","L"," ",EuroSign>>, <<"G","B","P"," ","z",LStrokeLower>>,
     <<"n","o","k"," ","s","e","k">>, <<"$"," ","E","U","R">>, <<"S","o","f","t">>}

\* the texts handed to detectCurrencyFromText
CurrencyTexts ==
    {Str(<<"1","9",".","9","9"," ">> \o m) : m \in CurrencyMarks}
      \cup {Str(m \o <<"1","9",",","9","9">>) : m \in CurrencyMarks}
      \cup {Str(m) : m \in MixedTexts} \cup {Str(<<>>), Null}

InitCurrency ==
    /\ input \in CurrencyTexts
    /\ output = <<>>
    /\ phase = "ready"
    /\ variant \in {"bot", "part000"}
    /\ web = "none"
    /\ pipeAt("idle")

\* detectCurrencyFromText(input) is called and returns
CallDetectCurrency ==
    /\ phase = "ready"
    /\ output' = <<IF variant = "bot" THEN detectCurrencyFromText(input)
                   ELSE detectCurrencyFromText0(input)>>
    /\ phase' = "returned"
    /\ UNCHANGED <<input, envVars, pipeVars>>

SpecCurrency == InitCurrency /\ [][CallDetectCurrency]_vars

\* the ordered symbol/code table: the symbols and the 3-letter or word codes
\* of the twelve currencies, EUR and GBP first
SymbolCodeTable ==
    <<<<EUR, {<<EuroSign>>, EUR}>>, <<GBP, {<<PoundSign>>, GBP}>>>> \o CodeTable

\* the table of src/unnamed/part_000: the three symbols first, the codes GBP
\* and EUR last
SymbolCodeTable0 ==
    <<<<EUR, {<<EuroSign>>}>>, <<GBP, {<<PoundSign>>}>>, <<USD, {<<"$">>}>>>>
      \o CodeTable \o <<<<GBP, {GBP}>>, <<EUR, {EUR}>>>>

\* entry i of the table occurs in the text, whatever the case of the letters
Occurs(table, i, text) ==
    \E pat \in table[i][2] : contains(toUpperCaseX(text), pat)

\* the rows of the table that occur in the text
RowsIn(table, text) == {i \in 1..Len(table) : Occurs(table, i, text)}

\* the result is the code of the first row that occurs, null when none does
IsFirstEntry(table, out, in) ==
    LET text == IF in.t = "str" THEN in.s ELSE <<>>
        rows == RowsIn(table, text)
    IN  IF rows = {} THEN out = Null
        ELSE \E i \in rows : /\ out = Str(table[i][1])
                              /\ \A j \in rows : i <= j

\* the codes of a table
CodesOf(table) == {Str(table[i][1]) : i \in 1..Len(table)}

\* C14: detectCurrencyFromText returns the code of the first entry of the
\* ordered symbol/code table (EUR, GBP, PLN, CHF, CZK, HUF, RON, BGN, DKK, SEK,
\* NOK, TRY) that occurs in the text, whatever the case, and null exactly when
\* no entry occurs; the result is always null or one of these twelve codes
C14_FirstTableEntry ==
    phase = "returned" =>
        /\ IsFirstEntry(SymbolCodeTable, output[1], input)
        /\ output[1] \in CodesOf(SymbolCodeTable) \cup {Null}

\* C14, amended: each variant returns the code of the first entry of its own
\* table that occurs in the text, whatever the case, and null exactly when no
\* entry occurs; the table of src/bot.mjs has the twelve currencies, the table
\* of src/unnamed/part_000 has "$" for USD as well and the codes GBP and EUR last
C14_FirstEntryOfOwnTable ==
    phase = "returned" =>
        LET table == IF variant = "bot" THEN SymbolCodeTable ELSE SymbolCodeTable0
        IN  /\ IsFirstEntry(table, output[1], input)
            /\ output[1] \in CodesOf(table) \cup {Null}

\* a lower-case text with two codes has been classified by its first table entry
C14_Witness ==
    /\ phase = "returned"
    /\ variant = "bot"
    /\ input = Str(<<"n","o","k"," ","s","e","k">>)
    /\ output[1] = Str(<<"S","E","K">>)

-----------------------------------------------------------------------------
(* the structured path, end to end *)

\* the record of PageMoisture with the given discount
MoistureRecord(pct) ==
    Item("ldjson", Str(<<"M","o","i","s","t","u","r","e"," ","C","r","e","a","m">>), Empty, Num(2990, 100), Num(3990, 100), pct,
         Str(EUR), Null, UrlMoisture, Empty, hostOf(UrlMoisture), Str(<<"D","E">>))

\* scrapeUrl has returned for a listing page without product links
returnedAlone == returned /\ Len(detail) = 0

\* C15: for a page whose only product data is one JSON-LD Product "Moisture
\* Cream" with a single offer of price 29.90, currency EUR, listPrice 39.90 and
\* url https://shop.example.de/p/123, exactly one record is returned, with
\* price_new 29.90, price_old 39.90, discount_pct 25.0, currency EUR, that url
\* and source ldjson
C15_MoistureCream25 ==
    (web = "outlet" /\ returnedAlone) => result.items = <<MoistureRecord(Num(250, 10))>>

\* C15, amended: the same, with discount_pct 25.1
C15_MoistureCream ==
    (web = "outlet" /\ returnedAlone) => result.items = <<MoistureRecord(Num(251, 10))>>

\* scrapeUrl has returned the one record of the Moisture Cream page
C15_Witness ==
    /\ web = "outlet"
    /\ returnedAlone
    /\ Len(result.items) = 1
    /\ result.items[1].source = "ldjson"
    /\ result.items[1].price_old = Num(399, 10)

-----------------------------------------------------------------------------
(* extractFromDom on its own: a visible price and old-price candidates *)

\* texts of the element of class price-now
NowTexts ==
    {<<PoundSign,"1","2",".","5","0">>, <<"-","1","0">>, <<"F","r","e","e">>, <<"2","0">>}

\* old-price candidates: class-marked elements and s and del tags
OldEls ==
    {El("span", <<"w","a","s">>, <<"W","a","s",":">>), El("span", <<"o","l","d">>, <<"0">>),
     El("del", <<>>, <<PoundSign,"1","5">>), El("del", <<>>, <<"-","5">>), El("s", <<>>, <<>>)}

MaxOldEls == 2

\* the documents: a heading, the price, then up to MaxOldEls candidates
DomDoc(now, olds) ==
    [title |-> Str(<<"S","h","o","p">>),
     els |-> <<El("h1", <<>>, <<"S","e","r","u","m">>),
               El("span", <<"p","r","i","c","e","-","n","o","w">>, now)>> \o olds]

DomDocs ==
    {DomDoc(now, olds) : now \in NowTexts,
                         olds \in UNION {[1..n -> OldEls] : n \in 0..MaxOldEls}}

InitDom ==
    /\ input \in DomDocs
    /\ output = <<>>
    /\ phase = "ready"
    /\ variant = "bot"
    /\ web = "none"
    /\ pipeAt("idle")

\* extractFromDom runs on the document: the candidates of scans 1 to 3, the
\* value of findOldPrice, and the records returned
CallExtractFromDom ==
    /\ phase = "ready"
    /\ output' = <<domScans(input, UrlSerum), findOldPrice(input),
                   extractFromDom(input, UrlSerum)>>
    /\ phase' = "returned"
    /\ UNCHANGED <<input, envVars, pipeVars>>

SpecDom == InitDom /\ [][CallExtractFromDom]_vars

\* the class marks of an old price
OldMarks ==
    {<<"o","l","d">>, <<"w","a","s">>, <<"s","t","r","i","k","e">>, <<"s","t","a","t","t">>,
     <<"a","n","t","e","s">>}

\* the numbers of the old-price candidates of a document, in scan order
candidateNums(doc) ==
    LET marked(e) == \E m \in OldMarks : contains(e.cls, m)
        struck(e) == e.tag \in {"s", "del"}
        cands == SelectSeq(doc.els, marked) \o SelectSeq(doc.els, struck)
    IN  [i \in 1..Len(cands) |-> getNum(Str(cands[i].text))]

\* the first number greater than zero in a sequence of numbers and nulls
firstPositive(nums) ==
    LET pos == {i \in 1..Len(nums) : isNumber(nums[i]) /\ Gt(nums[i], Zero)}
    IN  IF pos = {} THEN Null
        ELSE nums[CHOOSE i \in pos : \A j \in pos : i <= j]

\* C16: the page-wide previous price is the first numeric value greater than
\* zero among the old-price candidates in scan order (class-marked elements,
\* then s and del tags): a candidate whose text yields no number, zero or a
\* non-positive number is passed over
C16_FirstPositiveOldPrice ==
    phase = "returned" => output[2] = firstPositive(candidateNums(input))

\* the candidate `it` of scans 1 to 3 after the back-fill of the previous price
\* `prev`: price_old and a recomputed discount_pct when it has no price_old and
\* its price_new is strictly less, unchanged otherwise
BackFilled(it, prev, after) ==
    IF isNull(it.price_old) /\ isNumber(it.price_new) /\ isNumber(prev) /\ Lt(it.price_new, prev)
    THEN /\ after = [it EXCEPT !.price_old = prev, !.discount_pct = after.discount_pct]
         /\ IsPctRounded(it.price_new, prev, after.discount_pct)
    ELSE after = it

\* the document of the example: class price-now "£12.50" and del "£15"
DocPriceNowDel ==
    DomDoc(<<PoundSign,"1","2",".","5","0">>, <<El("del", <<>>, <<PoundSign,"1","5">>)>>)

\* C17: the DOM fallback back-fills the page-wide previous price onto exactly
\* the candidates of scans 1 to 3 that have no price_old and whose price_new is
\* strictly less than it, recomputing discount_pct, and leaves every other
\* candidate unchanged; class price-now "£12.50" with del "£15" gives
\* price_new 12.50, currency GBP, price_old 15, discount_pct 16.7
C17_BackFill ==
    phase = "returned" =>
        /\ Len(output[3]) = Len(output[1])
        /\ \A i \in 1..Len(output[1]) :
              BackFilled(output[1][i], firstPositive(candidateNums(input)), output[3][i])
        /\ input = DocPriceNowDel =>
              /\ Len(output[3]) = 1
              /\ output[3][1].price_new = Num(125, 10)
              /\ output[3][1].currency = Str(GBP)
              /\ output[3][1].price_old = Whole(15)
              /\ output[3][1].discount_pct = Num(167, 10)

\* C18: every discount_pct that extractFromDom puts on a record, the back-fill
\* included, equals computeDiscount(price_new, price_old) of that record, for
\* zero and negative prices too, so that the final recomputation of scrapeUrl
\* changes nothing
C18_DiscountFromComputeDiscount ==
    phase = "returned" =>
        \A i \in 1..Len(output[3]) :
            /\ output[3][i].discount_pct
                 = computeDiscount(output[3][i].price_new, output[3][i].price_old)
            /\ withDiscount(output[3][i]) = output[3][i]

-----------------------------------------------------------------------------
(* scrapeDetail calls in parallel: each suspends at its awaits, and the others
   run in between *)

\* scrapeDetail calls in flight
Parallel == 2

\* a call that has loaded its page and awaits p.content()
LoadedTask(page) == [st |-> "content", page |-> page, items |-> <<>>, res |-> NoVisit]

InitParallel ==
    /\ idlePure
    /\ variant \in {"bot", "part000"}
    /\ web = "shop"
    /\ pc = "details"
    /\ tries = 0
    /\ host = hostOf(UrlList)
    /\ country = countryOf(host)
    /\ listing = NoVisit
    /\ items = <<>>
    /\ detail \in [1..Parallel -> {LoadedTask(page) : page \in DetailPages}]
    /\ work = NoWork
    /\ result = Failed

\* itemsOf with one list for all calls
itemsOf_shared(tasks, i) == tasks[1].items

\* `let items` of call i
itemsOf(tasks, i) == tasks[i].items

\* call i gets the page content and runs the structured extractors; it
\* returns, or suspends at the await of extractFromDom with its items so far
ContentRead(i) ==
    /\ pc = "details"
    /\ detail[i].st = "content"
    /\ LET page == detail[i].page
           ld == extractFromLdJson(variant, page, page.url, host, country)
           structured == ld.items \o extractFromOg(variant, page, page.url, host, country)
       IN  detail' = [detail EXCEPT
                        ![i].st = IF ~ld.threw /\ variant = "bot" /\ needDom(structured)
                                  THEN "dom" ELSE "done",
                        ![i].items = IF ld.threw THEN <<>> ELSE structured,
                        ![i].res = IF ld.threw THEN NoVisit
                                   ELSE IF variant = "bot" /\ needDom(structured) THEN @
                                   ELSE visitOf(structured, FALSE, <<>>, <<>>)]
    /\ UNCHANGED <<pureVars, envVars, pc, tries, host, country, listing, items,
                   work, result>>

\* extractFromDom of call i resolves: its records are pushed onto the items
\* of the call, and the call returns
DomEvaluated(i) ==
    /\ pc = "details"
    /\ detail[i].st = "dom"
    /\ LET visit == visitWithDom(itemsOf(detail, i),
                                 extractFromDom(detail[i].page.dom, detail[i].page.url),
                                 host, country)
       IN  detail' = [detail EXCEPT ![i].st = "done",
                                    ![i].res = visit,
                                    ![i].items = @ \o visit.domItems]
    /\ UNCHANGED <<pureVars, envVars, pc, tries, host, country, listing, items,
                   work, result>>

SpecParallel ==
    InitParallel
      /\ [][\E i \in 1..Parallel : ContentRead(i) \/ DomEvaluated(i)]_vars

\* C19: calls share no mutable state: when several pages are processed in
\* parallel, the record list produced for a page is the one produced when the
\* page is processed alone, under every interleaving of the other calls
C19_NoSharedState ==
    \A i \in 1..Len(detail) :
        detail[i].st = "done" =>
            detail[i].res = scrapeDetail(variant, detail[i].page, host, country)

\* a call ran to its end, DOM fallback included, on another page while the
\* first call was suspended at its await of extractFromDom
C19_Witness ==
    /\ detail[1].st = "dom"
    /\ detail[2].st = "done"
    /\ detail[2].res.domRan
    /\ detail[2].page # detail[1].page
    /\ detail[2].res.items # <<>>

-----------------------------------------------------------------------------
(* the currency fallback and the final dedupe *)

\* the record with the currency it has once the fallback is applied
postFallback(it) ==
    IF (isNull(it.currency) \/ it.currency = Str(<<>>))
         /\ ~isNull(defaultCurrencyForCountry(country))
    THEN [it EXCEPT !.currency = defaultCurrencyForCountry(country)]
    ELSE it

\* records k and l of the merged list differ only in that one has a null
\* currency and the other the default currency of the country
NullAndDefault(k, l) ==
    /\ k < l
    /\ [work.merged[k] EXCEPT !.currency = Null] = [work.merged[l] EXCEPT !.currency = Null]
    /\ {work.merged[k].currency, work.merged[l].currency}
         = {Null, defaultCurrencyForCountry(country)}
    /\ ~isNull(defaultCurrencyForCountry(country))

\* C20: the currency fallback is applied before the final dedupe: in the list
\* returned no two records share the identity key (lower-cased name, url,
\* price_new, post-fallback currency), and two records that differed only in
\* that one had a null currency and the other the default currency of the
\* country collapse to the earlier one
C20_FallbackBeforeDedupe ==
    returned =>
        /\ \A i, j \in 1..Len(result.items) :
              i < j => ~SameDeal(postFallback(result.items[i]), postFallback(result.items[j]))
        /\ \A k, l \in 1..Len(work.merged) :
              NullAndDefault(k, l) =>
                  \A i \in 1..Len(result.items) :
                      SameDeal(result.items[i], work.filled[k]) =>
                          \E m \in 1..k : /\ SameDeal(work.filled[m], work.filled[k])
                                           /\ result.items[i] = withDiscount(work.filled[m])
                                           /\ \A n \in 1..(m - 1) :
                                                 ~SameDeal(work.filled[n], work.filled[k])

\* two records of a page that differed only in a null currency and EUR
\* reached the fallback, and the list returned holds one record for them
C20_Witness ==
    /\ returned
    /\ \E k, l \in 1..Len(work.merged) :
          /\ NullAndDefault(k, l)
          /\ Cardinality({i \in 1..Len(result.items) :
                            SameDeal(result.items[i], work.filled[k])}) = 1

-----------------------------------------------------------------------------
(* the order of the returned records *)

RECURSIVE inLinkOrder(_, _)
\* the records of the first n detail pages, page by page in the order of the
\* product links; a page that failed to load has none
inLinkOrder(tasks, n) ==
    IF n = 0 THEN <<>>
    ELSE inLinkOrder(tasks, n - 1)
           \o (IF tasks[n].tries < gotoLimit(variant)
               THEN scrapeDetail(variant, tasks[n].page, host, country).items
               ELSE <<>>)

\* the detail pages that loaded
AllLoaded == \A i \in 1..Len(detail) : detail[i].tries < gotoLimit(variant)

\* C21: the records of the listing page come first, followed by the records
\* of each detail page in the order of the product links, whatever the order
\* in which the detail pages complete; the list returned is the clean-up of
\* that list
C21_LinkOrder ==
    returned =>
        /\ work.merged = listing.items \o inLinkOrder(detail, Len(detail))
        /\ result.items = cleanUp(variant, fillAll(listing.items \o inLinkOrder(detail, Len(detail)),
                                                   defaultCurrencyForCountry(country)))

\* the second detail page completed before the first, and both gave records
C21_Witness ==
    /\ returned
    /\ Len(detail) = 2
    /\ AllLoaded
    /\ detail[2].rank < detail[1].rank
    /\ detail[1].res.items # <<>>
    /\ detail[2].res.items # <<>>
    /\ detail[1].res.items # detail[2].res.items

-----------------------------------------------------------------------------
(* gotoWithRetry on its own: input is the errors of the attempts made so far,
   output[1] is lastErr, tries counts the attempts *)

\* what an attempt may fail with: page.goto, autoConsent, waitForTimeout and
\* page.evaluate are all inside the try block
GotoErrors == {"timeout", "refused", "dns", "consent", "closed"}

InitGoto ==
    /\ input = <<>>
    /\ output = <<"undefined">>
    /\ phase = "idle"
    /\ variant = "bot"
    /\ web = "none"
    /\ pipeAt("goto")

\* lastErr = e, but only while lastErr is undefined
caught_first(lastErr, e) == IF lastErr = "undefined" THEN e ELSE lastErr

\* catch (e) { lastErr = e; ... }
caught(lastErr, e) == e

\* an iteration of the loop whose try block runs through: return
AttemptSucceeds ==
    /\ pc = "goto"
    /\ tries < GotoMax
    /\ tries' = tries + 1
    /\ pc' = "returned"
    /\ UNCHANGED <<pureVars, envVars, host, country, listing, items, detail, work,
                   result>>

\* an iteration of the loop whose try block throws e; after the last
\* iteration the loop ends and lastErr is thrown
AttemptFails(e) ==
    /\ pc = "goto"
    /\ tries < GotoMax
    /\ tries' = tries + 1
    /\ input' = Append(input, e)
    /\ output' = <<caught(output[1], e)>>
    /\ pc' = IF tries + 1 < GotoMax THEN "goto" ELSE "thrown"
    /\ UNCHANGED <<phase, envVars, host, country, listing, items, detail, work,
                   result>>

\* every await of an iteration settles: page.goto and the waits have timeouts
SpecGoto ==
    /\ InitGoto
    /\ [][AttemptSucceeds \/ \E e \in GotoErrors : AttemptFails(e)]_vars
    /\ WF_vars(AttemptSucceeds \/ \E e \in GotoErrors : AttemptFails(e))

\* attempts are made only while none has succeeded and fewer than 3 were made
GotoSafe ==
    /\ tries <= 3
    /\ pc = "goto" => tries < 3 /\ Len(input) = tries
    /\ pc = "returned" => Len(input) = tries - 1
    /\ pc = "thrown" => tries = 3 /\ Len(input) = 3 /\ output[1] = input[3]

-----------------------------------------------------------------------------
(* failures *)

\* C23: failures are isolated per page and per feed: a detail page whose
\* scrape fails contributes no records but neither fails its feed nor removes
\* records of other pages, and a feed whose scrape fails yields a result with
\* ok = false: the failure is a value, never thrown, so that the run ends with
\* one result per feed
C23_FailuresIsolated ==
    /\ pc # "rejected"
    /\ (pc = "done" /\ listing.ok) => result.ok
    /\ returned => work.merged = listing.items \o inLinkOrder(detail, Len(detail))
    /\ (pc = "done" /\ ~result.ok) => result = Failed

-----------------------------------------------------------------------------
(* digit-free text *)

\* the text has no digit in it
DigitFree(v) == v.t = "str" /\ \A i \in 1..Len(v.s) : v.s[i] \notin DigitSet

\* C24: the number parsers return a non-null number only for text with at
\* least one digit: for every text without a digit (empty, letters only, a
\* bare currency symbol or label) parseNumberLocalized and getNum return null
C24_DigitFreeIsNull ==
    (phase = "returned" /\ DigitFree(input)) =>
        /\ output[1] = Null
        /\ output[2] = Null

-----------------------------------------------------------------------------
(* distinct deals *)

\* the positions of L whose record agrees with no earlier record on the
\* lower-cased name, the url, price_new and currency
DistinctAt(L) ==
    {i \in 1..Len(L) : \A j \in 1..(i - 1) : ~SameDeal(L[j], L[i])}

\* C25: dedupe never drops a distinct deal: a record is removed only if an
\* earlier record of the input has the same lower-cased name, the same url,
\* the same price_new and the same currency, also when a name or a url holds
\* the '|' that joins the key
C25_DistinctDealsKept ==
    phase = "returned" => output[1] = Pick(input, DistinctAt(input))

====
